---- MODULE Spec2Model ----
(***************************************************************************)
(* A model of h3xy's memory image (HexFile), its address-based reads, its  *)
(* normalisation, the address transforms, the checksum placement and the   *)
(* Pipeline::execute stage sequence.                                       *)
(*                                                                         *)
(* Addresses are u32 in the program.  TLC's integers are 32-bit signed, so *)
(* the address space is 0..MaxAddr with MaxAddr standing for u32::MAX; all *)
(* checked/saturating arithmetic is done against MaxAddr.                  *)
(***************************************************************************)
EXTENDS Integers, Sequences, FiniteSets, TLC

\* segments: the image (in execute, its local hexfile); call and result: the
\* last call's arguments and what it returned; pc: the statement execute is
\* at; checksum_bytes: execute's local of that name; output: the image the
\* command line wrote out.
VARIABLES segments, call, result, pc, checksum_bytes, output

vars == <<segments, call, result, pc, checksum_bytes, output>>

\* ------------------------------------------------------------------ bounds
\* Stand-in for u32::MAX (2^24 - 1).
MaxAddr == 16777215
\* Longest data of a segment handed to append/prepend/write.
MaxLen == 2
\* Most segments an image is built from.
MaxSegs == 3
\* Start addresses are drawn from the NearEdge+1 lowest and highest addresses.
NearEdge == 2

None == <<>>
Some(v) == <<v>>

Min2(a, b) == IF a <= b THEN a ELSE b
Max2(a, b) == IF a >= b THEN a ELSE b

\* u32::checked_add / checked_sub: None on overflow / underflow.
checked_add(a, b) == IF a + b > MaxAddr THEN None ELSE Some(a + b)
checked_sub(a, b) == IF a < b THEN None ELSE Some(a - b)
saturating_add(a, b) == IF a + b > MaxAddr THEN MaxAddr ELSE a + b
saturating_sub(a, b) == IF a < b THEN 0 ELSE a - b

\* ----------------------------------------------------------------- Segment
Segment(start, data) == [start_address |-> start, data |-> data]

is_empty(seg) == Len(seg.data) = 0

\* start + len - 1, saturating at u32::MAX (the checked_add of the length
\* overflows as soon as start + len > u32::MAX).
end_address(seg) ==
    IF Len(seg.data) = 0 THEN seg.start_address
    ELSE LET v == checked_add(seg.start_address, Len(seg.data))
         IN  IF v = None THEN MaxAddr
             ELSE LET w == checked_sub(v[1], 1)
                  IN  IF w = None THEN MaxAddr ELSE w[1]

is_contiguous_with(a, b) ==
    checked_add(end_address(a), 1) = Some(b.start_address)

\* --------------------------------------------------------------- sequences
RECURSIVE FilterNonEmpty(_)
FilterNonEmpty(segs) ==
    IF segs = <<>> THEN <<>>
    ELSE IF is_empty(Head(segs)) THEN FilterNonEmpty(Tail(segs))
         ELSE <<Head(segs)>> \o FilterNonEmpty(Tail(segs))

\* Vec::sort_by_key(|s| s.start_address): a stable sort.
RECURSIVE InsertByStart(_, _)
InsertByStart(sorted, s) ==
    IF sorted = <<>> THEN <<s>>
    ELSE IF Head(sorted).start_address <= s.start_address
         THEN <<Head(sorted)>> \o InsertByStart(Tail(sorted), s)
         ELSE <<s>> \o sorted

RECURSIVE SortFrom(_, _)
SortFrom(segs, acc) ==
    IF segs = <<>> THEN acc
    ELSE SortFrom(Tail(segs), InsertByStart(acc, Head(segs)))

sort_by_start(segs) == SortFrom(segs, <<>>)

\* ----------------------------------------------------------------- HexFile
append_segment(segs, seg) ==
    IF is_empty(seg) THEN segs ELSE Append(segs, seg)

prepend_segment(segs, seg) ==
    IF is_empty(seg) THEN segs ELSE <<seg>> \o segs

write_bytes(segs, addr, data) ==
    IF Len(data) = 0 THEN segs ELSE Append(segs, Segment(addr, data))

set_segments(new_segments) == FilterNonEmpty(new_segments)

RECURSIVE MinStart(_, _)
MinStart(segs, best) ==
    IF segs = <<>> THEN best
    ELSE LET s == Head(segs)
         IN  MinStart(Tail(segs),
                 IF is_empty(s) THEN best
                 ELSE IF best = None THEN Some(s.start_address)
                 ELSE Some(Min2(best[1], s.start_address)))

min_address(segs) == MinStart(segs, None)

RECURSIVE MaxEnd(_, _)
MaxEnd(segs, best) ==
    IF segs = <<>> THEN best
    ELSE LET s == Head(segs)
         IN  MaxEnd(Tail(segs),
                 IF is_empty(s) THEN best
                 ELSE IF best = None THEN Some(end_address(s))
                 ELSE Some(Max2(best[1], end_address(s))))

max_address(segs) == MaxEnd(segs, None)

\* Scan from the tail: the first covering segment wins.
RECURSIVE ReadByteFrom(_, _, _)
ReadByteFrom(segs, i, addr) ==
    IF i = 0 THEN None
    ELSE LET seg == segs[i]
         IN  IF ~is_empty(seg)
                /\ addr >= seg.start_address /\ addr <= end_address(seg)
                /\ addr - seg.start_address < Len(seg.data)
             THEN Some(seg.data[addr - seg.start_address + 1])
             ELSE ReadByteFrom(segs, i - 1, addr)

\* Mutant of read_byte: the scan runs from the head (oldest segment wins).
RECURSIVE ReadByteFromHead(_, _)
ReadByteFromHead(segs, addr) ==
    IF segs = <<>> THEN None
    ELSE LET seg == Head(segs)
         IN  IF ~is_empty(seg)
                /\ addr >= seg.start_address /\ addr <= end_address(seg)
                /\ addr - seg.start_address < Len(seg.data)
             THEN Some(seg.data[addr - seg.start_address + 1])
             ELSE ReadByteFromHead(Tail(segs), addr)

read_byte_oldest_wins(segs, addr) == ReadByteFromHead(segs, addr)

read_byte(segs, addr) == ReadByteFrom(segs, Len(segs), addr)

\* Drop the bytes that would lie beyond u32::MAX; None for an empty segment.
truncate_segment_to_u32(segment) ==
    IF is_empty(segment) THEN None
    ELSE LET max_len == (MaxAddr - segment.start_address) + 1
             len     == Min2(Len(segment.data), max_len)
         IN  IF max_len = 0 \/ len = 0 THEN None
             ELSE IF len = Len(segment.data) THEN Some(segment)
             ELSE Some(Segment(segment.start_address,
                               SubSeq(segment.data, 1, len)))

\* iter().filter_map(truncate_segment_to_u32).collect()
RECURSIVE TruncateAll(_)
TruncateAll(segs) ==
    IF segs = <<>> THEN <<>>
    ELSE truncate_segment_to_u32(Head(segs)) \o TruncateAll(Tail(segs))

RECURSIVE MergeAdjacentFrom(_, _)
MergeAdjacentFrom(segs, merged) ==
    IF segs = <<>> THEN merged
    ELSE LET seg == Head(segs)
             n   == Len(merged)
         IN  IF n > 0 /\ is_contiguous_with(merged[n], seg)
             THEN MergeAdjacentFrom(Tail(segs),
                      [merged EXCEPT ![n].data = @ \o seg.data])
             ELSE MergeAdjacentFrom(Tail(segs), Append(merged, seg))

\* Mutant of merge_adjacent_segments: segments are merged two by two, so a
\* merged pair is never extended by the segment that follows it.
RECURSIVE merge_adjacent_pairs(_)
merge_adjacent_pairs(segs) ==
    IF Len(segs) < 2 THEN segs
    ELSE IF is_contiguous_with(segs[1], segs[2])
         THEN <<[segs[1] EXCEPT !.data = @ \o segs[2].data]>>
              \o merge_adjacent_pairs(Tail(Tail(segs)))
         ELSE <<segs[1]>> \o merge_adjacent_pairs(Tail(segs))

merge_adjacent_segments(segs) == MergeAdjacentFrom(segs, <<>>)

\* One iteration of overlay_segment's loop over the current segments.
\* acc.next is the vector being built, acc.new_seg whether seg is still to be
\* pushed (the Option the code take()s).
OverlayStep(cur, seg, acc) ==
    LET seg_start == seg.start_address
        seg_end   == end_address(seg)
        withSeg(v, pending) == IF pending THEN Append(v, seg) ELSE v
    IN  IF end_address(cur) < seg_start
        THEN [acc EXCEPT !.next = Append(@, cur)]
        ELSE IF cur.start_address > seg_end
        THEN [next |-> Append(withSeg(acc.next, acc.new_seg), cur),
              new_seg |-> FALSE]
        ELSE LET left_len == seg_start - cur.start_address
                 n1 == IF cur.start_address < seg_start /\ left_len > 0
                       THEN Append(acc.next,
                                Segment(cur.start_address,
                                        SubSeq(cur.data, 1, left_len)))
                       ELSE acc.next
             IN  IF end_address(cur) > seg_end
                 THEN LET n2 == withSeg(n1, acc.new_seg)
                          right_start == checked_add(seg_end, 1)
                      IN  [next |->
                             IF right_start # None
                                /\ right_start[1] - cur.start_address < Len(cur.data)
                             THEN Append(n2,
                                    Segment(right_start[1],
                                        SubSeq(cur.data,
                                               right_start[1] - cur.start_address + 1,
                                               Len(cur.data))))
                             ELSE n2,
                           new_seg |-> FALSE]
                 ELSE [acc EXCEPT !.next = n1]

RECURSIVE OverlayLoop(_, _, _)
OverlayLoop(segs, seg, acc) ==
    IF segs = <<>> THEN acc
    ELSE OverlayLoop(Tail(segs), seg, OverlayStep(Head(segs), seg, acc))

overlay_segment(segs, seg) ==
    IF segs = <<>> THEN <<seg>>
    ELSE LET acc == OverlayLoop(segs, seg, [next |-> <<>>, new_seg |-> TRUE])
         IN  merge_adjacent_segments(
                 IF acc.new_seg THEN Append(acc.next, seg) ELSE acc.next)

RECURSIVE OverlayAll(_, _)
OverlayAll(truncated, merged) ==
    IF truncated = <<>> THEN merged
    ELSE OverlayAll(Tail(truncated), overlay_segment(merged, Head(truncated)))

\* The has_overlap scan of normalized_lossy over the sorted references.
RECURSIVE HasOverlapFrom(_, _)
HasOverlapFrom(sorted, last_end) ==
    IF sorted = <<>> THEN FALSE
    ELSE IF Head(sorted).start_address <= last_end THEN TRUE
    ELSE HasOverlapFrom(Tail(sorted), end_address(Head(sorted)))

\* Mutant of normalized_lossy: overlaps are never resolved.
normalized_lossy_no_overlay(segs) ==
    merge_adjacent_segments(sort_by_start(TruncateAll(segs)))

normalized_lossy(segs) ==
    LET truncated == TruncateAll(segs)
    IN  IF truncated = <<>> THEN <<>>
        ELSE LET sorted_refs == sort_by_start(truncated)
                 has_overlap == HasOverlapFrom(Tail(sorted_refs),
                                               end_address(sorted_refs[1]))
             IN  IF ~has_overlap
                 THEN merge_adjacent_segments(sort_by_start(truncated))
                 ELSE merge_adjacent_segments(
                          sort_by_start(OverlayAll(truncated, <<>>)))

\* normalized(): Ok(segments) or Err(OverlappingSegments).
RECURSIVE NormalizedFrom(_, _)
NormalizedFrom(sorted, merged) ==
    IF sorted = <<>> THEN [ok |-> TRUE, segments |-> merged]
    ELSE LET seg == Head(sorted)
             n   == Len(merged)
         IN  IF n > 0 /\ seg.start_address <= end_address(merged[n])
             THEN [ok |-> FALSE, segments |-> <<>>]
             ELSE IF n > 0 /\ is_contiguous_with(merged[n], seg)
             THEN NormalizedFrom(Tail(sorted),
                      [merged EXCEPT ![n].data = @ \o seg.data])
             ELSE NormalizedFrom(Tail(sorted), Append(merged, seg))

\* Mutant of normalized: the segments are not sorted before the scan.
normalized_unsorted(segs) ==
    LET sorted == FilterNonEmpty(segs)
    IN  IF sorted = <<>> THEN [ok |-> TRUE, segments |-> <<>>]
        ELSE NormalizedFrom(sorted, <<>>)

normalized(segs) ==
    LET sorted == FilterNonEmpty(segs)
    IN  IF sorted = <<>> THEN [ok |-> TRUE, segments |-> <<>>]
        ELSE NormalizedFrom(sort_by_start(sorted), <<>>)

\* The loop of read_bytes_contiguous over the normalized segments.
RECURSIVE ContiguousFrom(_, _, _, _)
ContiguousFrom(norm, addr, end, len) ==
    IF norm = <<>> THEN None
    ELSE LET segment == Head(norm)
         IN  IF end < segment.start_address THEN None
             ELSE IF addr >= segment.start_address /\ end <= end_address(segment)
             THEN LET offset == addr - segment.start_address
                  IN  Some(SubSeq(segment.data, offset + 1, offset + len))
             ELSE ContiguousFrom(Tail(norm), addr, end, len)

read_bytes_contiguous(segs, addr, len) ==
    IF len = 0 THEN Some(<<>>)
    ELSE LET v == checked_add(addr, len)
             end == IF v = None THEN None ELSE checked_sub(v[1], 1)
         IN  IF end = None THEN None
             ELSE ContiguousFrom(normalized_lossy(segs), addr, end[1], len)

\* ------------------------------------------------------ address transforms
\* What a fallible operation on &mut self leaves behind: Ok(()) or Err(err),
\* and the segments as they are when it returns.
Ok(segs) == [ok |-> TRUE, err |-> "", segments |-> segs]
Err(e, segs) == [ok |-> FALSE, err |-> e, segments |-> segs]

checked_mul(a, b) == IF a * b > MaxAddr THEN None ELSE Some(a * b)

\* scale_addresses: a validation pass over all segments, then the mutation.
scale_addresses(segs, factor) ==
    IF \E i \in DOMAIN segs : checked_mul(segs[i].start_address, factor) = None
    THEN Err("AddressOverflow", segs)
    ELSE Ok([i \in DOMAIN segs |->
                [segs[i] EXCEPT !.start_address = @ * factor]])

\* Mutant of unscale_addresses: the divisor 1 is refused like 0.
unscale_addresses_above_one(segs, divisor) ==
    IF divisor <= 1 THEN Err("AddressNotDivisible", segs)
    ELSE IF \E i \in DOMAIN segs : segs[i].start_address % divisor # 0
    THEN Err("AddressNotDivisible", segs)
    ELSE Ok([i \in DOMAIN segs |->
                [segs[i] EXCEPT !.start_address = @ \div divisor]])

\* unscale_addresses: divisor check, validation pass, then the mutation.
unscale_addresses(segs, divisor) ==
    IF divisor = 0 THEN Err("AddressNotDivisible", segs)
    ELSE IF \E i \in DOMAIN segs : segs[i].start_address % divisor # 0
    THEN Err("AddressNotDivisible", segs)
    ELSE Ok([i \in DOMAIN segs |->
                [segs[i] EXCEPT !.start_address = @ \div divisor]])

RemapOptions(start, end, linear, size, inc) ==
    [start |-> start, end |-> end, linear |-> linear, size |-> size, inc |-> inc]

\* Mutant of RemapSegment: a segment crossing the end of its bank window is
\* moved like one inside it.
RemapSegmentAcrossWindow(segment, options) ==
    IF segment.start_address < options.start \/ end_address(segment) > options.end
    THEN None
    ELSE LET offset == segment.start_address - options.start
             new_start == checked_add(options.linear,
                              ((offset \div options.inc) * options.size)
                                  + (offset % options.inc))
         IN  IF new_start = None THEN "overflow" ELSE new_start

\* The body of remap's loop for one segment: None to leave it (continue),
\* Some(new_start) to move it, "overflow" when a checked operation fails.
RemapSegment(segment, options) ==
    LET seg_start == segment.start_address
        seg_end   == end_address(segment)
    IN  IF seg_start < options.start \/ seg_end > options.end THEN None
        ELSE LET offset     == seg_start - options.start
                 bank_index == offset \div options.inc
                 m1         == checked_mul(bank_index, options.inc)
                 bank_base  == IF m1 = None THEN None
                               ELSE checked_add(options.start, m1[1])
             IN  IF bank_base = None THEN "overflow"
                 ELSE LET bank_end == checked_add(bank_base[1], options.size - 1)
                      IN  IF bank_end = None THEN "overflow"
                          ELSE IF seg_end > bank_end[1] THEN None
                          ELSE LET bank_offset == seg_start - bank_base[1]
                                   m2 == checked_mul(bank_index, options.size)
                                   l1 == IF m2 = None THEN None
                                         ELSE checked_add(options.linear, m2[1])
                                   new_start == IF l1 = None THEN None
                                                ELSE checked_add(l1[1], bank_offset)
                               IN  IF new_start = None THEN "overflow"
                                   ELSE new_start

\* for segment in self.segments_mut(): each segment is rewritten in place, and
\* an error returns with the segments before it already moved.
RECURSIVE RemapLoop(_, _, _)
RemapLoop(segs, i, options) ==
    IF i > Len(segs) THEN Ok(segs)
    ELSE LET r == RemapSegment(segs[i], options)
         IN  IF r = "overflow" THEN Err("AddressOverflow", segs)
             ELSE IF r = None THEN RemapLoop(segs, i + 1, options)
             ELSE RemapLoop([segs EXCEPT ![i].start_address = r[1]],
                            i + 1, options)

remap(segs, options) ==
    IF options.size = 0 \/ options.inc = 0
    THEN Err("InvalidRemapParams", segs)
    ELSE IF options.start > options.end
    THEN Err("InvalidRemapParams", segs)
    ELSE RemapLoop(segs, 1, options)

\* ------------------------------------------------------------------ ranges
\* Range { start, end } (end inclusive); the constructors return None for
\* Err(RangeError).
Range(start, end) == [start |-> start, end |-> end]

from_start_length(start, length) ==
    IF length = 0 THEN None
    ELSE LET end == checked_add(start, length - 1)
         IN  IF end = None THEN None ELSE Some(Range(start, end[1]))

from_start_end(start, end) ==
    IF start > end THEN None
    ELSE IF start = 0 /\ end = MaxAddr THEN None
    ELSE Some(Range(start, end))

length(r) == r.end - r.start + 1

\* ---------------------------------------------------------------- checksum
WordSumAlgorithms ==
    {"WordSumBe", "WordSumLe", "WordSumBeTwosComplement", "WordSumLeTwosComplement"}

ChecksumAlgorithm ==
    {"ByteSumBe", "ByteSumLe", "ByteSumTwosComplement", "ModularSum",
     "Crc16", "Crc32", "Crc16CcittLe", "Crc16CcittBe",
     "Crc16CcittLeInit0", "Crc16CcittBeInit0"} \cup WordSumAlgorithms

result_size(algorithm) == IF algorithm = "Crc32" THEN 4 ELSE 2

native_little_endian(algorithm) ==
    algorithm \in {"ByteSumLe", "WordSumLe", "WordSumLeTwosComplement",
                   "Crc16CcittLe", "Crc16CcittLeInit0"}

ForcedRange(range, pattern) == [range |-> range, pattern |-> pattern]

ChecksumOptions(algorithm, range, little_endian_output, forced_range, exclude_ranges, target_exclude) ==
    [algorithm |-> algorithm, range |-> range,
     little_endian_output |-> little_endian_output,
     forced_range |-> forced_range, exclude_ranges |-> exclude_ranges,
     target_exclude |-> target_exclude]

\* ChecksumTarget: kind is Address, Append, Prepend, OverwriteEnd or File;
\* addr is the payload of Address.
ChecksumTarget(kind, addr) == [kind |-> kind, addr |-> addr]

\* Result<Vec<u8>, OpsError> of the payload and checksum computations; a
\* failed expect() is the error "panic".
DataOk(data) == [ok |-> TRUE, err |-> "", data |-> data]
DataErr(e) == [ok |-> FALSE, err |-> e, data |-> <<>>]

RECURSIVE byte_sum(_)
byte_sum(data) ==
    IF data = <<>> THEN 0
    ELSE (byte_sum(SubSeq(data, 1, Len(data) - 1)) + data[Len(data)]) % 65536

RECURSIVE WordSum(_, _)
WordSum(data, big_endian) ==
    IF data = <<>> THEN 0
    ELSE LET n == Len(data)
             word == IF big_endian THEN data[n - 1] * 256 + data[n]
                     ELSE data[n] * 256 + data[n - 1]
         IN  (WordSum(SubSeq(data, 1, n - 2), big_endian) + word) % 65536

\* word_sum_be / word_sum_le: None for Err(LengthNotMultiple).
word_sum_be(data) ==
    IF Len(data) % 2 # 0 THEN None ELSE Some(WordSum(data, TRUE))

word_sum_le(data) ==
    IF Len(data) % 2 # 0 THEN None ELSE Some(WordSum(data, FALSE))

twos_complement(sum) == (65536 - sum) % 65536

u16_bytes(value, little_endian) ==
    IF little_endian THEN <<value % 256, value \div 256>>
    ELSE <<value \div 256, value % 256>>

\* The CRC registers are bit sequences, least significant bit first.
RECURSIVE Pow2(_)
Pow2(n) == IF n = 0 THEN 1 ELSE 2 * Pow2(n - 1)

Bits(v, w) == SubSeq([i \in 1..w |-> (v \div Pow2(i - 1)) % 2], 1, w)
XorBits(a, b) == SubSeq([i \in 1..Len(a) |-> (a[i] + b[i]) % 2], 1, Len(a))
Ones(w) == SubSeq([i \in 1..w |-> 1], 1, w)
Zeros(w) == SubSeq([i \in 1..w |-> 0], 1, w)
ByteOf(bits, k) ==
    LET b == SubSeq(bits, 8 * k + 1, 8 * k + 8)
    IN  b[1] + 2 * b[2] + 4 * b[3] + 8 * b[4]
          + 16 * b[5] + 32 * b[6] + 64 * b[7] + 128 * b[8]

\* One bit of a reflected CRC: shift right, xor the reversed polynomial in
\* when the bit shifted out is set.
CrcReflectedBit(reg, poly) ==
    LET shifted == Tail(reg) \o <<0>>
    IN  IF reg[1] = 1 THEN XorBits(shifted, poly) ELSE shifted

\* One bit of an unreflected CRC: shift left, xor the polynomial in when the
\* bit shifted out is set.
CrcForwardBit(reg, poly) ==
    LET w == Len(reg)
        shifted == <<0>> \o SubSeq(reg, 1, w - 1)
    IN  IF reg[w] = 1 THEN XorBits(shifted, poly) ELSE shifted

\* for _ in 0..n over a register, reflected or not.
RECURSIVE CrcBitsLoop(_, _, _, _)
CrcBitsLoop(reg, poly, reflected, n) ==
    IF n = 0 THEN reg
    ELSE CHOOSE out \in
            {CrcBitsLoop(next, poly, reflected, n - 1) :
                next \in {IF reflected THEN CrcReflectedBit(reg, poly)
                           ELSE CrcForwardBit(reg, poly)}} : TRUE

\* The register after the bytes of data, each xor-ed into the low byte
\* (reflected) or the high byte (unreflected) and followed by 8 bit steps.
RECURSIVE CrcLoop(_, _, _, _)
CrcLoop(data, reg, poly, reflected) ==
    IF data = <<>> THEN reg
    ELSE LET w == Len(reg)
             byte == Bits(Head(data), 8)
         IN  CHOOSE out \in
                {CrcLoop(Tail(data), next, poly, reflected) :
                    next \in {CrcBitsLoop(
                        XorBits(reg, IF reflected THEN byte \o Zeros(w - 8)
                                     ELSE Zeros(w - 8) \o byte),
                        poly, reflected, 8)}} : TRUE

CrcReflected(data, reg, poly) == CrcLoop(data, reg, poly, TRUE)
CrcForward(data, reg, poly) == CrcLoop(data, reg, poly, FALSE)

\* CRC_16_ARC: poly 0x8005 (reversed 0xA001), init 0, reflected, xorout 0.
crc16_arc(data) == CrcReflected(data, Zeros(16), Bits(40961, 16))

\* CRC_32_ISO_HDLC: poly 0x04C11DB7 (reversed 0xEDB88320), init and xorout
\* 0xFFFFFFFF, reflected.
crc32_iso_hdlc(data) ==
    XorBits(CrcReflected(data, Ones(32), Bits(33568, 16) \o Bits(60856, 16)),
            Ones(32))

\* CRC_16_IBM_SDLC: poly 0x1021 (reversed 0x8408), init and xorout 0xFFFF,
\* reflected.
crc16_ibm_sdlc(data) ==
    XorBits(CrcReflected(data, Ones(16), Bits(33800, 16)), Ones(16))

\* CRC_16_XMODEM: poly 0x1021, init 0, not reflected, xorout 0.
crc16_xmodem(data) == CrcForward(data, Zeros(16), Bits(4129, 16))

\* to_le_bytes / to_be_bytes of a CRC register of 8 * n bits.
CrcBytes(bits, little_endian) ==
    LET n == Len(bits) \div 8
    IN  IF little_endian THEN [k \in 1..n |-> ByteOf(bits, k - 1)]
        ELSE [k \in 1..n |-> ByteOf(bits, n - k)]

\* ranges.sort_by_key(|r| r.start()): a stable sort.
InsertByRangeStart(sorted, r) ==
    LET after == {i \in DOMAIN sorted : sorted[i].start > r.start}
        k == IF after = {} THEN Len(sorted) + 1
             ELSE CHOOSE i \in after : \A j \in after : i <= j
    IN  SubSeq(sorted, 1, k - 1) \o <<r>> \o SubSeq(sorted, k, Len(sorted))

RECURSIVE SortRangesFrom(_, _)
SortRangesFrom(ranges, acc) ==
    IF ranges = <<>> THEN acc
    ELSE SortRangesFrom(Tail(ranges), InsertByRangeStart(acc, Head(ranges)))

\* The loop of merge_ranges over the sorted ranges; a merge that would span
\* the whole address space fails its expect("range merge").
RECURSIVE MergeRangesFrom(_, _)
MergeRangesFrom(ranges, merged) ==
    IF ranges = <<>> THEN [panicked |-> FALSE, ranges |-> merged]
    ELSE LET r == Head(ranges)
         IN  IF merged = <<>> THEN MergeRangesFrom(Tail(ranges), <<r>>)
             ELSE LET last == merged[Len(merged)]
                      last_end == last.end
                      next == checked_add(last_end, 1)
                      extend == IF next = None THEN FALSE ELSE r.start <= next[1]
                  IN  IF r.start <= last_end \/ extend
                      THEN LET m == from_start_end(last.start, Max2(last_end, r.end))
                           IN  IF m = None
                               THEN [panicked |-> TRUE, ranges |-> merged]
                               ELSE MergeRangesFrom(Tail(ranges),
                                        [merged EXCEPT ![Len(merged)] = m[1]])
                      ELSE MergeRangesFrom(Tail(ranges), Append(merged, r))

merge_ranges(ranges) == MergeRangesFrom(SortRangesFrom(ranges, <<>>), <<>>)

\* The code of subtract_ranges after its loop.
SubtractRest(range, cursor, out) ==
    IF cursor <= range.end /\ from_start_end(cursor, range.end) # None
    THEN Append(out, from_start_end(cursor, range.end)[1])
    ELSE out

RECURSIVE SubtractFrom(_, _, _, _)
SubtractFrom(range, excludes, cursor, out) ==
    IF excludes = <<>> THEN SubtractRest(range, cursor, out)
    ELSE LET ex == Head(excludes)
         IN  IF ex.end < cursor
             THEN SubtractFrom(range, Tail(excludes), cursor, out)
             ELSE IF ex.start > range.end
             THEN SubtractRest(range, cursor, out)
             ELSE LET ex_start == Max2(ex.start, range.start)
                      ex_end == Min2(ex.end, range.end)
                      piece == IF cursor < ex_start
                               THEN from_start_end(cursor, ex_start - 1)
                               ELSE None
                      out1 == IF piece # None THEN Append(out, piece[1]) ELSE out
                  IN  IF ex_end = MaxAddr THEN out1
                      ELSE IF ex_end + 1 > range.end THEN out1
                      ELSE SubtractFrom(range, Tail(excludes), ex_end + 1, out1)

subtract_ranges(range, excludes) ==
    IF excludes = <<>> THEN <<range>>
    ELSE SubtractFrom(range, excludes, range.start, <<>>)

build_pattern_data(range, pattern) ==
    LET len == length(range)
        fill_pattern == IF pattern = <<>> THEN <<255>> ELSE pattern
    IN  SubSeq([i \in 1..len |-> fill_pattern[((i - 1) % Len(fill_pattern)) + 1]],
               1, len)

\* Mutant of finalize_run: the length of a run is not looked at.
finalize_run_start_only(needs_word_alignment, run_start, run_len) ==
    IF ~needs_word_alignment THEN ""
    ELSE IF run_start % 2 # 0 THEN "AddressNotDivisible"
    ELSE ""

\* finalize_run: "" for Ok(()), else the error.
finalize_run(needs_word_alignment, run_start, run_len) ==
    IF ~needs_word_alignment THEN ""
    ELSE IF run_start % 2 # 0 THEN "AddressNotDivisible"
    ELSE IF run_len % 2 # 0 THEN "LengthNotMultiple"
    ELSE ""

RECURSIVE FinalizeEach(_, _)
FinalizeEach(needs_word_alignment, include_ranges) ==
    IF include_ranges = <<>> THEN ""
    ELSE LET r == Head(include_ranges)
             e == finalize_run(needs_word_alignment, r.start, length(r))
         IN  IF e # "" THEN e
             ELSE FinalizeEach(needs_word_alignment, Tail(include_ranges))

Fill(n) == SubSeq([i \in 1..n |-> 255], 1, n)

\* The walk without a forced range: the overlap of each segment with each
\* included range is emitted; st holds the loop's variables.
RECURSIVE CollectRuns(_, _, _, _)
CollectRuns(segs, incs, needs_word_alignment, st) ==
    IF ~(st.seg_idx <= Len(segs) /\ st.inc_idx <= Len(incs))
    THEN LET e == IF st.run_start = None THEN ""
                  ELSE finalize_run(needs_word_alignment, st.run_start[1], st.run_len)
         IN  IF e # "" THEN DataErr(e) ELSE DataOk(st.data)
    ELSE LET seg == segs[st.seg_idx]
             inc == incs[st.inc_idx]
         IN  IF end_address(seg) < inc.start
             THEN CollectRuns(segs, incs, needs_word_alignment,
                              [st EXCEPT !.seg_idx = @ + 1])
             ELSE IF seg.start_address > inc.end
             THEN CollectRuns(segs, incs, needs_word_alignment,
                              [st EXCEPT !.inc_idx = @ + 1])
             ELSE LET start == Max2(seg.start_address, inc.start)
                      end == Min2(end_address(seg), inc.end)
                      breaks == st.prev_end # None
                                  /\ start # saturating_add(st.prev_end[1], 1)
                      e == IF breaks /\ st.run_start # None
                           THEN finalize_run(needs_word_alignment,
                                             st.run_start[1], st.run_len)
                           ELSE ""
                      run_start1 == IF breaks THEN None ELSE st.run_start
                      run_len1 == IF breaks THEN 0 ELSE st.run_len
                      offset == start - seg.start_address
                      len == end - start + 1
                  IN  IF e # "" THEN DataErr(e)
                      ELSE CollectRuns(segs, incs, needs_word_alignment,
                             [seg_idx |-> IF end_address(seg) <= inc.end
                                          THEN st.seg_idx + 1 ELSE st.seg_idx,
                              inc_idx |-> IF end_address(seg) <= inc.end
                                          THEN st.inc_idx ELSE st.inc_idx + 1,
                              run_start |-> IF run_start1 = None THEN Some(start)
                                            ELSE run_start1,
                              run_len |-> run_len1 + len,
                              prev_end |-> Some(end),
                              data |-> st.data
                                         \o SubSeq(seg.data, offset + 1, offset + len)])

\* while seg_idx < segments.len() && segments[seg_idx].end_address() < addr
RECURSIVE SkipSegments(_, _, _)
SkipSegments(segs, seg_idx, addr) ==
    IF seg_idx <= Len(segs) /\ end_address(segs[seg_idx]) < addr
    THEN SkipSegments(segs, seg_idx + 1, addr)
    ELSE seg_idx

\* while addr <= r.end() of the walk with a forced range: bytes of the
\* segments, 0xFF where no segment covers an address of r.
RECURSIVE ForcedRun(_, _, _, _, _)
ForcedRun(segs, r, addr, seg_idx, data) ==
    IF addr > r.end THEN [seg_idx |-> seg_idx, data |-> data]
    ELSE IF seg_idx > Len(segs)
    THEN [seg_idx |-> seg_idx, data |-> data \o Fill(r.end - addr + 1)]
    ELSE LET seg == segs[seg_idx]
         IN  IF seg.start_address > r.end
             THEN [seg_idx |-> seg_idx, data |-> data \o Fill(r.end - addr + 1)]
             ELSE IF seg.start_address > addr
             THEN LET gap_end == Min2(saturating_sub(seg.start_address, 1), r.end)
                  IN  ForcedRun(segs, r, saturating_add(gap_end, 1), seg_idx,
                                data \o Fill(gap_end - addr + 1))
             ELSE LET seg_start == Max2(addr, seg.start_address)
                      seg_end == Min2(end_address(seg), r.end)
                      offset == seg_start - seg.start_address
                      len == seg_end - seg_start + 1
                      data1 == data \o SubSeq(seg.data, offset + 1, offset + len)
                      seg_idx1 == IF end_address(seg) <= seg_end
                                  THEN seg_idx + 1 ELSE seg_idx
                      next_addr == checked_add(seg_end, 1)
                  IN  IF next_addr = None
                      THEN [seg_idx |-> seg_idx1, data |-> data1]
                      ELSE ForcedRun(segs, r, next_addr[1], seg_idx1, data1)

RECURSIVE ForcedRuns(_, _, _, _)
ForcedRuns(segs, include_ranges, seg_idx, data) ==
    IF include_ranges = <<>> THEN data
    ELSE LET r == Head(include_ranges)
             run == ForcedRun(segs, r, r.start,
                              SkipSegments(segs, seg_idx, r.start), data)
         IN  ForcedRuns(segs, Tail(include_ranges), run.seg_idx, run.data)

RECURSIVE AppendSegments(_, _)
AppendSegments(combined, segs) ==
    IF segs = <<>> THEN combined
    ELSE AppendSegments(append_segment(combined, Head(segs)), Tail(segs))

\* The working image: the normalized snapshot, under a forced range laid
\* over the tiled pattern of that range.
WorkingImage(snapshot, forced) ==
    IF forced # None
    THEN normalized_lossy(AppendSegments(
             append_segment(<<>>,
                 Segment(forced[1].range.start,
                         build_pattern_data(forced[1].range, forced[1].pattern))),
             snapshot))
    ELSE snapshot

\* effective_range: the Option<Range>, or invalid when the bounds of the
\* working image make no Range.
EffectiveRange(options, min, max) ==
    IF options.range # None THEN [invalid |-> FALSE, range |-> options.range]
    ELSE IF options.forced_range # None
    THEN [invalid |-> FALSE, range |-> Some(options.forced_range[1].range)]
    ELSE IF min # None /\ max # None
    THEN [invalid |-> from_start_end(min[1], max[1]) = None,
          range |-> from_start_end(min[1], max[1])]
    ELSE [invalid |-> FALSE, range |-> None]

Excludes(options) ==
    IF options.target_exclude # None
    THEN Append(options.exclude_ranges, options.target_exclude[1])
    ELSE options.exclude_ranges

\* The payload of the included ranges.
CollectIncluded(working, options, include_ranges) ==
    IF include_ranges = <<>> THEN DataOk(<<>>)
    ELSE IF options.forced_range # None
    THEN IF FinalizeEach(options.algorithm \in WordSumAlgorithms, include_ranges) # ""
         THEN DataErr(FinalizeEach(options.algorithm \in WordSumAlgorithms,
                                   include_ranges))
         ELSE DataOk(ForcedRuns(working, include_ranges, 1, <<>>))
    ELSE CollectRuns(working, include_ranges,
             options.algorithm \in WordSumAlgorithms,
             [seg_idx |-> 1, inc_idx |-> 1, run_start |-> None,
              run_len |-> 0, prev_end |-> None, data |-> <<>>])

CollectExcluding(working, options, range, merged) ==
    IF merged.panicked THEN DataErr("panic")
    ELSE CollectIncluded(working, options, subtract_ranges(range, merged.ranges))

CollectInRange(working, options, effective_range) ==
    IF effective_range.invalid THEN DataErr("AddressOverflow")
    ELSE IF effective_range.range = None THEN DataOk(<<>>)
    ELSE CollectExcluding(working, options, effective_range.range[1],
                          merge_ranges(Excludes(options)))

CollectFrom(working, options) ==
    CollectInRange(working, options,
        EffectiveRange(options, min_address(working), max_address(working)))

collect_data_for_checksum(segs, options) ==
    CollectFrom(WorkingImage(normalized_lossy(segs), options.forced_range), options)

\* Result<u16, OpsError> of a word sum as the checksum bytes.
WordSumBytes(sum, twos, use_le) ==
    IF sum = None THEN DataErr("LengthNotMultiple")
    ELSE DataOk(u16_bytes(IF twos THEN twos_complement(sum[1]) ELSE sum[1], use_le))

\* The match of calculate_checksum on the algorithm, over the payload.
ChecksumOfData(data, algorithm, use_le) ==
    IF algorithm \in {"ByteSumBe", "ByteSumLe", "ModularSum"}
    THEN DataOk(u16_bytes(byte_sum(data), use_le))
    ELSE IF algorithm = "WordSumBe"
    THEN WordSumBytes(word_sum_be(data), FALSE, use_le)
    ELSE IF algorithm = "WordSumLe"
    THEN WordSumBytes(word_sum_le(data), FALSE, use_le)
    ELSE IF algorithm = "ByteSumTwosComplement"
    THEN DataOk(u16_bytes(twos_complement(byte_sum(data)), use_le))
    ELSE IF algorithm = "WordSumBeTwosComplement"
    THEN WordSumBytes(word_sum_be(data), TRUE, use_le)
    ELSE IF algorithm = "WordSumLeTwosComplement"
    THEN WordSumBytes(word_sum_le(data), TRUE, use_le)
    ELSE IF algorithm = "Crc16"
    THEN DataOk(CrcBytes(crc16_arc(data), use_le))
    ELSE IF algorithm = "Crc32"
    THEN DataOk(CrcBytes(crc32_iso_hdlc(data), use_le))
    ELSE IF algorithm \in {"Crc16CcittLe", "Crc16CcittBe"}
    THEN DataOk(CrcBytes(crc16_ibm_sdlc(data), use_le))
    ELSE DataOk(CrcBytes(crc16_xmodem(data), use_le))

ChecksumOfCollected(collected, options) ==
    IF ~collected.ok THEN collected
    ELSE ChecksumOfData(collected.data, options.algorithm,
             native_little_endian(options.algorithm) # options.little_endian_output)

calculate_checksum(segs, options) ==
    ChecksumOfCollected(collect_data_for_checksum(segs, options), options)

\* Result<Vec<u8>, OpsError> of checksum, with the segments it leaves.
ChecksumOk(segs, bytes) ==
    [ok |-> TRUE, err |-> "", segments |-> segs, value |-> bytes]
ChecksumErr(e, segs) ==
    [ok |-> FALSE, err |-> e, segments |-> segs, value |-> <<>>]

\* The target_exclude that checksum adds to the options for its target.
OverwriteExclude(end, size) ==
    IF end = None THEN None
    ELSE IF checked_sub(end[1], saturating_sub(size, 1)) = None THEN None
    ELSE from_start_length(checked_sub(end[1], saturating_sub(size, 1))[1], size)

TargetExclude(segs, size, target) ==
    IF target.kind = "Address" THEN from_start_length(target.addr, size)
    ELSE IF target.kind = "OverwriteEnd"
    THEN OverwriteExclude(max_address(segs), size)
    ELSE None

\* The second match of checksum on the target: the write of the bytes.
WriteChecksum(segs, target, bytes, start, end) ==
    IF target.kind = "Address"
    THEN ChecksumOk(write_bytes(segs, target.addr, bytes), bytes)
    ELSE IF target.kind = "Append" /\ end # None
    THEN IF checked_add(end[1], 1) = None THEN ChecksumErr("AddressOverflow", segs)
         ELSE ChecksumOk(write_bytes(segs, checked_add(end[1], 1)[1], bytes), bytes)
    ELSE IF target.kind = "Prepend" /\ start # None
    THEN IF checked_sub(start[1], Len(bytes)) = None
         THEN ChecksumErr("AddressOverflow", segs)
         ELSE ChecksumOk(write_bytes(segs, checked_sub(start[1], Len(bytes))[1],
                                     bytes), bytes)
    ELSE IF target.kind = "OverwriteEnd" /\ end # None
    THEN IF checked_sub(end[1], saturating_sub(Len(bytes), 1)) = None
         THEN ChecksumErr("AddressOverflow", segs)
         ELSE ChecksumOk(
                  write_bytes(segs,
                      checked_sub(end[1], saturating_sub(Len(bytes), 1))[1],
                      bytes), bytes)
    ELSE ChecksumOk(segs, bytes)

ChecksumCalculated(segs, target, calculated) ==
    IF ~calculated.ok THEN ChecksumErr(calculated.err, segs)
    ELSE WriteChecksum(segs, target, calculated.data,
                       min_address(segs), max_address(segs))

EffectiveOptions(options, exclude) ==
    IF exclude # None THEN [options EXCEPT !.target_exclude = exclude]
    ELSE options

checksum(segs, options, target) ==
    ChecksumCalculated(segs, target,
        calculate_checksum(segs,
            EffectiveOptions(options,
                TargetExclude(segs, result_size(options.algorithm), target))))

\* flag_checksum builds the options and calls checksum.
flag_checksum(segs, algorithm, range, little_endian_output, forced_range, exclude_ranges, target) ==
    checksum(segs,
             ChecksumOptions(algorithm, range, little_endian_output,
                             forced_range, exclude_ranges, None),
             target)

\* ------------------------------------------------------- banked mapping
BankedMapOptions(bank_min, bank_max, linear_base, nonbank_low_base, nonbank_high_base) ==
    [bank_min |-> bank_min, bank_max |-> bank_max, linear_base |-> linear_base,
     nonbank_low_base |-> nonbank_low_base, nonbank_high_base |-> nonbank_high_base]

\* a - b in u32 where the code subtracts unchecked: None for the panic of a
\* build with overflow checks, the wrapped value in a build without.
unchecked_sub(a, b, overflow_checks) ==
    IF a >= b THEN Some(a - b)
    ELSE IF overflow_checks THEN None
    ELSE Some(a - b + MaxAddr + 1)

\* a + b in u32 where the code adds unchecked.
unchecked_add(a, b, overflow_checks) ==
    IF a + b <= MaxAddr THEN Some(a + b)
    ELSE IF overflow_checks THEN None
    ELSE Some(a + b - (MaxAddr + 1))

\* (start >> 16) as u8
BankOf(start) == (start \div 65536) % 256

\* The banked arm of map_banked's loop body, from the offset in the bank on.
MapBankedOffset(linear_bank_base, bank_offset) ==
    IF linear_bank_base = None THEN "overflow"
    ELSE IF bank_offset = None THEN "panic"
    ELSE IF checked_add(linear_bank_base[1], bank_offset[1]) = None THEN "overflow"
    ELSE checked_add(linear_bank_base[1], bank_offset[1])

\* linear_base + bank_index * 0x4000, both checked.
LinearBankBase(linear_base, bank_index) ==
    IF checked_mul(bank_index, 16384) = None THEN None
    ELSE checked_add(linear_base, checked_mul(bank_index, 16384)[1])

\* The body of map_banked's loop for one segment: None to leave it, Some of
\* the new start, "overflow" for Err(AddressOverflow), "panic".
MapBankedSegment(start, end, options, overflow_checks) ==
    IF start >= 16384 /\ end <= 32767
    THEN IF checked_add(options.nonbank_low_base, start - 16384) = None
         THEN "overflow"
         ELSE checked_add(options.nonbank_low_base, start - 16384)
    ELSE IF start >= 49152 /\ end <= 65535
    THEN IF checked_add(options.nonbank_high_base, start - 49152) = None
         THEN "overflow"
         ELSE checked_add(options.nonbank_high_base, start - 49152)
    ELSE IF BankOf(start) < options.bank_min \/ BankOf(start) > options.bank_max
    THEN None
    ELSE IF end > BankOf(start) * 65536 + 32768 + 16383 THEN None
    ELSE MapBankedOffset(
             LinearBankBase(options.linear_base, BankOf(start) - options.bank_min),
             unchecked_sub(start, BankOf(start) * 65536 + 32768, overflow_checks))

\* The body of map_star08's loop for one segment.
MapStar08Segment(start, end) ==
    IF start >= 16384 /\ end <= 32767
    THEN IF checked_add(1064960, start - 16384) = None THEN "overflow"
         ELSE checked_add(1064960, start - 16384)
    ELSE IF start < BankOf(start) * 65536 + 32768
              \/ end > BankOf(start) * 65536 + 32768 + 16383
    THEN None
    ELSE MapBankedOffset(LinearBankBase(1048576, BankOf(start)),
                         Some(start - (BankOf(start) * 65536 + 32768)))

\* What a mapping loop leaves: each segment is rewritten in place, and an
\* error (or panic) leaves the segments before it moved.
MapMoved(segs, i, moved) ==
    IF moved = "overflow" THEN Err("AddressOverflow", segs)
    ELSE IF moved = "panic" THEN Err("panic", segs)
    ELSE IF moved = None THEN Ok(segs)
    ELSE Ok([segs EXCEPT ![i].start_address = moved[1]])

RECURSIVE MapBankedLoop(_, _, _, _)
MapBankedLoop(segs, i, options, overflow_checks) ==
    IF i > Len(segs) THEN Ok(segs)
    ELSE CHOOSE out \in
            {IF r.ok THEN MapBankedLoop(r.segments, i + 1, options, overflow_checks)
             ELSE r :
                r \in {MapMoved(segs, i,
                           MapBankedSegment(segs[i].start_address,
                                            end_address(segs[i]),
                                            options, overflow_checks))}} : TRUE

map_banked(segs, options, overflow_checks) ==
    IF options.bank_min > options.bank_max THEN Err("InvalidRemapParams", segs)
    ELSE MapBankedLoop(segs, 1, options, overflow_checks)

map_star12(segs, overflow_checks) ==
    map_banked(segs, BankedMapOptions(48, 63, 786432, 1015808, 1032192),
               overflow_checks)

map_star12x(segs, overflow_checks) ==
    map_banked(segs, BankedMapOptions(224, 255, 7864320, 8339456, 8372224),
               overflow_checks)

RECURSIVE MapStar08Loop(_, _)
MapStar08Loop(segs, i) ==
    IF i > Len(segs) THEN Ok(segs)
    ELSE CHOOSE out \in
            {IF r.ok THEN MapStar08Loop(r.segments, i + 1) ELSE r :
                r \in {MapMoved(segs, i,
                           MapStar08Segment(segs[i].start_address,
                                            end_address(segs[i])))}} : TRUE

map_star08(segs) == MapStar08Loop(segs, 1)

\* ------------------------------------------------- filter, cut, fill, merge
overlaps(a, b) == a.start <= b.end /\ b.start <= a.end

intersection(a, b) ==
    IF ~overlaps(a, b) THEN None
    ELSE Some(Range(Max2(a.start, b.start), Min2(a.end, b.end)))

\* Mutant of FilterSegment: a segment that meets a range is kept whole.
RECURSIVE FilterSegmentWhole(_, _, _)
FilterSegmentWhole(segment, seg_range, ranges) ==
    IF ranges = <<>> THEN <<>>
    ELSE IF intersection(seg_range, Head(ranges)) = None
    THEN FilterSegmentWhole(segment, seg_range, Tail(ranges))
    ELSE <<segment>> \o FilterSegmentWhole(segment, seg_range, Tail(ranges))

\* The inner loop of filter_ranges: the parts of one segment in each range.
RECURSIVE FilterSegment(_, _, _)
FilterSegment(segment, seg_range, ranges) ==
    IF ranges = <<>> THEN <<>>
    ELSE IF intersection(seg_range, Head(ranges)) = None
    THEN FilterSegment(segment, seg_range, Tail(ranges))
    ELSE <<Segment(intersection(seg_range, Head(ranges))[1].start,
                   SubSeq(segment.data,
                          intersection(seg_range, Head(ranges))[1].start
                              - segment.start_address + 1,
                          intersection(seg_range, Head(ranges))[1].end
                              - segment.start_address + 1))>>
         \o FilterSegment(segment, seg_range, Tail(ranges))

RECURSIVE FilterSegments(_, _)
FilterSegments(segs, ranges) ==
    IF segs = <<>> THEN <<>>
    ELSE IF from_start_end(Head(segs).start_address, end_address(Head(segs))) = None
    THEN FilterSegments(Tail(segs), ranges)
    ELSE FilterSegment(Head(segs),
                       from_start_end(Head(segs).start_address,
                                      end_address(Head(segs)))[1],
                       ranges)
         \o FilterSegments(Tail(segs), ranges)

filter_ranges(segs, ranges) ==
    IF ranges = <<>> THEN set_segments(<<>>)
    ELSE set_segments(FilterSegments(segs, ranges))

filter_range(segs, range) == filter_ranges(segs, <<range>>)

\* The body of cut_ranges' inner loop: what is kept of one segment.
CutSegment(segment, seg_start, seg_end, range) ==
    IF seg_end < range.start \/ seg_start > range.end THEN <<segment>>
    ELSE (IF seg_start < range.start
          THEN <<Segment(seg_start, SubSeq(segment.data, 1, range.start - seg_start))>>
          ELSE <<>>)
         \o
         (IF seg_end > range.end
          THEN <<Segment(range.end + 1,
                         SubSeq(segment.data, range.end - seg_start + 2,
                                Len(segment.data)))>>
          ELSE <<>>)

RECURSIVE CutSegments(_, _)
CutSegments(segs, range) ==
    IF segs = <<>> THEN <<>>
    ELSE CutSegment(Head(segs), Head(segs).start_address,
                    end_address(Head(segs)), range)
         \o CutSegments(Tail(segs), range)

\* Mutant of cut_ranges: only the first range is cut.
cut_ranges_first_only(segs, ranges) ==
    IF ranges = <<>> THEN segs
    ELSE set_segments(CutSegments(segs, Head(ranges)))

RECURSIVE cut_ranges(_, _)
cut_ranges(segs, ranges) ==
    IF ranges = <<>> THEN segs
    ELSE cut_ranges(set_segments(CutSegments(segs, Head(ranges))), Tail(ranges))

cut(segs, range) == cut_ranges(segs, <<range>>)

FillOptions(pattern, overwrite) == [pattern |-> pattern, overwrite |-> overwrite]

\* Mutant of PatternData: the first byte of the pattern, repeated.
PatternDataUntiled(len, pattern) ==
    SubSeq([i \in 1..len |-> pattern[1]], 1, len)

\* for i in 0..len { data.push(pattern[i % pattern.len()]) }
PatternData(len, pattern) ==
    SubSeq([i \in 1..len |-> pattern[((i - 1) % Len(pattern)) + 1]], 1, len)

RECURSIVE FillEach(_, _, _)
FillEach(segs, ranges, options) ==
    IF ranges = <<>> THEN segs
    ELSE FillEach(
             prepend_segment(
                 IF options.overwrite THEN cut(segs, Head(ranges)) ELSE segs,
                 Segment(Head(ranges).start,
                         PatternData(length(Head(ranges)), options.pattern))),
             Tail(ranges), options)

\* Mutant of fill_ranges: the fill segment is appended (high priority).
RECURSIVE FillEachAppending(_, _, _)
FillEachAppending(segs, ranges, options) ==
    IF ranges = <<>> THEN segs
    ELSE FillEachAppending(
             append_segment(
                 IF options.overwrite THEN cut(segs, Head(ranges)) ELSE segs,
                 Segment(Head(ranges).start,
                         PatternData(length(Head(ranges)), options.pattern))),
             Tail(ranges), options)

fill_ranges_appending(segs, ranges, options) ==
    IF options.pattern = <<>> THEN segs
    ELSE FillEachAppending(segs, ranges, options)

fill_ranges(segs, ranges, options) ==
    IF options.pattern = <<>> THEN segs
    ELSE FillEach(segs, ranges, options)

fill(segs, range, options) == fill_ranges(segs, <<range>>, options)

\* data[offset..offset + segment.len()].copy_from_slice(&segment.data)
CopyFromSlice(data, offset, src) ==
    SubSeq([i \in 1..Len(data) |->
               IF i > offset /\ i <= offset + Len(src) THEN src[i - offset]
               ELSE data[i]], 1, Len(data))

RECURSIVE CopySegments(_, _, _)
CopySegments(data, snapshot, min_addr) ==
    IF snapshot = <<>> THEN data
    ELSE CopySegments(
             CopyFromSlice(data, Head(snapshot).start_address - min_addr,
                           Head(snapshot).data),
             Tail(snapshot), min_addr)

\* vec![fill_byte; total_len]
FilledVec(fill_byte, total_len) ==
    SubSeq([i \in 1..total_len |-> fill_byte], 1, total_len)

FillGapsOf(snapshot, min_addr, max_addr, fill_byte) ==
    IF min_addr = None \/ max_addr = None THEN None
    ELSE Some(<<Segment(min_addr[1],
                  CopySegments(FilledVec(fill_byte, max_addr[1] - min_addr[1] + 1),
                               snapshot, min_addr[1]))>>)

FillGapsFrom(segs, filled) ==
    IF filled = None THEN segs ELSE set_segments(filled[1])

FillGapsSnapshot(segs, snapshot, fill_byte) ==
    FillGapsFrom(segs, FillGapsOf(snapshot, min_address(snapshot),
                                  max_address(snapshot), fill_byte))

fill_gaps(segs, fill_byte) ==
    FillGapsSnapshot(segs, normalized_lossy(segs), fill_byte)

\* offset is an i64; a non-negative one is cast with "as u32".
OffsetStart(start, offset) ==
    IF offset >= 0 THEN saturating_add(start, offset % (MaxAddr + 1))
    ELSE saturating_sub(start, IF -offset > MaxAddr THEN MaxAddr ELSE -offset)

offset_addresses(segs, offset) ==
    [i \in 1..Len(segs) |->
        [segs[i] EXCEPT !.start_address = OffsetStart(@, offset)]]

MergeOptions(mode, offset, range) ==
    [mode |-> mode, offset |-> offset, range |-> range]

RECURSIVE PrependSegments(_, _)
PrependSegments(segs, others) ==
    IF others = <<>> THEN segs
    ELSE PrependSegments(prepend_segment(segs, Head(others)), Tail(others))

MergeFiltered(segs, other_filtered, options) ==
    IF options.mode = "Overwrite" THEN AppendSegments(segs, other_filtered)
    ELSE PrependSegments(segs, other_filtered)

MergeOffset(other_filtered, options) ==
    IF options.offset # 0 THEN offset_addresses(other_filtered, options.offset)
    ELSE other_filtered

MergeRange(other, options) ==
    IF options.range # None THEN filter_range(other, options.range[1])
    ELSE other

merge(segs, other, options) ==
    MergeFiltered(segs, MergeOffset(MergeRange(other, options), options), options)

\* ---------------------------------------------------- align, split, swap
AlignOptions(alignment, fill_byte, align_length) ==
    [alignment |-> alignment, fill_byte |-> fill_byte, align_length |-> align_length]

is_valid_alignment(n) == n # 0

align_down(addr, alignment) == addr - (addr % alignment)

\* len + (alignment - rem) is an unchecked u32 addition.
align_up(len, alignment, overflow_checks) ==
    IF len % alignment = 0 THEN Some(len)
    ELSE unchecked_add(len, alignment - (len % alignment), overflow_checks)

\* The first if of align's loop body.
AlignStartFill(filled, segment, aligned_start, options) ==
    IF aligned_start < segment.start_address
    THEN prepend_segment(filled,
             Segment(aligned_start,
                     FilledVec(options.fill_byte,
                               segment.start_address - aligned_start)))
    ELSE filled

\* The second if of align's loop body, given end_addr and aligned_end.
AlignEndFill(filled, end_addr, aligned_end, options) ==
    IF aligned_end = None THEN Err("panic", filled)
    ELSE IF aligned_end[1] > end_addr
    THEN Ok(prepend_segment(filled,
                Segment(end_addr,
                        FilledVec(options.fill_byte, aligned_end[1] - end_addr))))
    ELSE Ok(filled)

AlignSegment(filled, segment, options, overflow_checks) ==
    IF options.align_length
    THEN AlignEndFill(
             AlignStartFill(filled, segment,
                            align_down(segment.start_address, options.alignment),
                            options),
             saturating_add(end_address(segment), 1),
             align_up(saturating_add(end_address(segment), 1),
                      options.alignment, overflow_checks),
             options)
    ELSE Ok(AlignStartFill(filled, segment,
                           align_down(segment.start_address, options.alignment),
                           options))

RECURSIVE AlignFills(_, _, _, _)
AlignFills(filled, snapshot, options, overflow_checks) ==
    IF snapshot = <<>> THEN Ok(filled)
    ELSE CHOOSE out \in
            {IF r.ok
             THEN AlignFills(r.segments, Tail(snapshot), options, overflow_checks)
             ELSE r :
                r \in {AlignSegment(filled, Head(snapshot), options,
                                    overflow_checks)}} : TRUE

AlignFilled(segs, snapshot, fills) ==
    IF ~fills.ok THEN Err(fills.err, segs)
    ELSE Ok(set_segments(normalized_lossy(AppendSegments(fills.segments, snapshot))))

AlignSnapshot(segs, snapshot, options, overflow_checks) ==
    AlignFilled(segs, snapshot,
                AlignFills(<<>>, snapshot, options, overflow_checks))

align(segs, options, overflow_checks) ==
    IF ~is_valid_alignment(options.alignment) THEN Err("InvalidAlignment", segs)
    ELSE AlignSnapshot(segs, normalized_lossy(segs), options, overflow_checks)

\* segment.data.chunks(max_size) with addr += chunk.len() after each push:
\* the addition is unchecked, also after the last chunk.
RECURSIVE SplitChunks(_, _, _, _)
SplitChunks(addr, data, max_size, overflow_checks) ==
    IF data = <<>> THEN Ok(<<>>)
    ELSE IF addr = None THEN Err("panic", <<>>)
    ELSE CHOOSE out \in
            {IF rest.ok
             THEN Ok(<<Segment(addr[1], SubSeq(data, 1, Min2(max_size, Len(data))))>>
                     \o rest.segments)
             ELSE rest :
                rest \in {SplitChunks(
                              unchecked_add(addr[1], Min2(max_size, Len(data)),
                                            overflow_checks),
                              SubSeq(data, Min2(max_size, Len(data)) + 1, Len(data)),
                              max_size, overflow_checks)}} : TRUE

\* The addition after the last chunk: its panic ends split as well.
SplitSegment(segment, max_size, overflow_checks) ==
    IF Len(segment.data) <= max_size THEN Ok(<<segment>>)
    ELSE IF unchecked_add(segment.start_address, Len(segment.data),
                          overflow_checks) = None
    THEN Err("panic", <<>>)
    ELSE SplitChunks(Some(segment.start_address), segment.data, max_size,
                     overflow_checks)

RECURSIVE SplitSegments(_, _, _)
SplitSegments(segs, max_size, overflow_checks) ==
    IF segs = <<>> THEN Ok(<<>>)
    ELSE CHOOSE out \in
            {IF ~first.ok THEN first
             ELSE CHOOSE all \in
                    {IF rest.ok THEN Ok(first.segments \o rest.segments) ELSE rest :
                        rest \in {SplitSegments(Tail(segs), max_size,
                                                overflow_checks)}} : TRUE :
                first \in {SplitSegment(Head(segs), max_size,
                                        overflow_checks)}} : TRUE

SplitDone(segs, split_segments) ==
    IF ~split_segments.ok THEN Err("panic", segs)
    ELSE Ok(set_segments(split_segments.segments))

split(segs, max_size, overflow_checks) ==
    IF max_size = 0 THEN Ok(segs)
    ELSE SplitDone(segs, SplitSegments(segs, max_size, overflow_checks))

\* SwapMode::size
SwapSize(mode) == IF mode = "Word" THEN 2 ELSE 4

\* Mutant of SwapData: a complete chunk is rotated by one byte.
SwapDataRotated(data, size) ==
    SubSeq([i \in 1..Len(data) |->
               IF ((i - 1) \div size) * size + size <= Len(data)
               THEN data[((i - 1) \div size) * size + (i % size) + 1]
               ELSE data[i]], 1, Len(data))

\* chunks_exact_mut(size) with chunk.reverse(): byte i of a complete chunk
\* takes the byte mirrored in its chunk; trailing bytes stay.
SwapData(data, size) ==
    SubSeq([i \in 1..Len(data) |->
               IF ((i - 1) \div size) * size + size <= Len(data)
               THEN data[((i - 1) \div size) * size + size - ((i - 1) % size)]
               ELSE data[i]], 1, Len(data))

swap_bytes(segs, mode) ==
    Ok(SubSeq([i \in 1..Len(segs) |->
                  [segs[i] EXCEPT !.data = SwapData(@, SwapSize(mode))]],
              1, Len(segs)))

\* ------------------------------------------------------------ log commands
\* LogCommand { line, kind }, the path of a FileOpen beside its kind.
LogCommand(line, kind, path) == [line |-> line, kind |-> kind, path |-> path]

\* Err(LogError::Load { line, source }), the image as the loop left it.
LoadError(line, segs) ==
    [ok |-> FALSE, err |-> "Load", line |-> line, segments |-> segs]

\* The caller's loader: the files it can load, by path; any other path is an
\* error.
log_loader(files, path) ==
    IF path \in DOMAIN files THEN Ok(files[path]) ELSE Err("Load", <<>>)

\* Mutant of LogCommandDone: a FileClose or FileNew leaves the image as it
\* is.
LogCommandDoneKeeping(segs, command, loaded) ==
    IF command.kind = "FileOpen"
    THEN IF loaded.ok THEN Ok(loaded.segments) ELSE LoadError(command.line, segs)
    ELSE Ok(segs)

\* What one command leaves of the image.
LogCommandDone(segs, command, loaded) ==
    IF command.kind = "FileOpen"
    THEN IF loaded.ok THEN Ok(loaded.segments) ELSE LoadError(command.line, segs)
    ELSE Ok(<<>>)

RECURSIVE execute_log_commands(_, _, _)
execute_log_commands(segs, commands, files) ==
    IF commands = <<>> THEN Ok(segs)
    ELSE CHOOSE out \in
            {IF r.ok THEN execute_log_commands(r.segments, Tail(commands), files)
             ELSE r :
                r \in {LogCommandDone(segs, Head(commands),
                                      log_loader(files, Head(commands).path))}} : TRUE

\* ------------------------------------------------------------------- flags
RECURSIVE FillRangesPattern(_, _, _)
FillRangesPattern(segs, ranges, options) ==
    IF ranges = <<>> THEN segs
    ELSE FillRangesPattern(fill(segs, Head(ranges), options), Tail(ranges), options)

flag_fill_ranges_pattern(segs, ranges, pattern) ==
    IF ranges = <<>> \/ pattern = <<>> THEN segs
    ELSE FillRangesPattern(segs, ranges, FillOptions(pattern, FALSE))

\* The caller's generator: the bytes it returns for a range.
random_fill(seed, range) ==
    SubSeq([i \in 1..length(range) |-> (seed + 37 * i) % 256], 1, length(range))

RECURSIVE flag_fill_ranges_random(_, _, _)
flag_fill_ranges_random(segs, ranges, seed) ==
    IF ranges = <<>> THEN segs
    ELSE flag_fill_ranges_random(
             prepend_segment(segs, Segment(Head(ranges).start,
                                           random_fill(seed, Head(ranges)))),
             Tail(ranges), seed)

flag_cut_ranges(segs, ranges) == cut_ranges(segs, ranges)

flag_merge_transparent(segs, other, offset, range) ==
    Ok(merge(segs, other, MergeOptions("Preserve", offset, range)))

flag_merge_opaque(segs, other, offset, range) ==
    Ok(merge(segs, other, MergeOptions("Overwrite", offset, range)))

flag_filter_ranges(segs, ranges) ==
    IF ranges # <<>> THEN filter_ranges(segs, ranges) ELSE segs

flag_fill_all(segs, fill_byte) == fill_gaps(segs, fill_byte)

flag_align(segs, alignment, fill_byte, align_length, overflow_checks) ==
    align(segs, AlignOptions(alignment, fill_byte, align_length), overflow_checks)

flag_split(segs, size, overflow_checks) == split(segs, size, overflow_checks)

flag_swap_word(segs) == swap_bytes(segs, "Word")

flag_swap_long(segs) == swap_bytes(segs, "DWord")

flag_remap(segs, options) == remap(segs, options)

flag_map_star12(segs, overflow_checks) == map_star12(segs, overflow_checks)

flag_map_star12x(segs, overflow_checks) == map_star12x(segs, overflow_checks)

flag_map_star08(segs) == map_star08(segs)

\* ---------------------------------------------------------------- Pipeline
PipelineMerge(other, offset, range) ==
    [other |-> other, offset |-> offset, range |-> range]

PipelineChecksum(algorithm, range, little_endian_output, forced_range, exclude_ranges, target) ==
    [algorithm |-> algorithm, range |-> range,
     little_endian_output |-> little_endian_output,
     forced_range |-> forced_range, exclude_ranges |-> exclude_ranges,
     target |-> target]

PipelineResult(hexfile, bytes) == [hexfile |-> hexfile, checksum_bytes |-> bytes]

\* What a stage of execute leaves: the image, and the checksum's bytes.
StageDone(r) ==
    [ok |-> r.ok, err |-> r.err, segments |-> r.segments, checksum_bytes |-> None]

ChecksumDone(r) ==
    [ok |-> r.ok, err |-> r.err, segments |-> r.segments,
     checksum_bytes |-> IF r.ok THEN Some(r.value) ELSE None]

\* for merge in &self.merge_transparent { flag_merge_transparent(..)? }
RECURSIVE MergeTransparentEach(_, _)
MergeTransparentEach(segs, merges) ==
    IF merges = <<>> THEN Ok(segs)
    ELSE CHOOSE out \in
            {IF r.ok THEN MergeTransparentEach(r.segments, Tail(merges)) ELSE r :
                r \in {flag_merge_transparent(segs, Head(merges).other,
                                              Head(merges).offset,
                                              Head(merges).range)}} : TRUE

RECURSIVE MergeOpaqueEach(_, _)
MergeOpaqueEach(segs, merges) ==
    IF merges = <<>> THEN Ok(segs)
    ELSE CHOOSE out \in
            {IF r.ok THEN MergeOpaqueEach(r.segments, Tail(merges)) ELSE r :
                r \in {flag_merge_opaque(segs, Head(merges).other,
                                         Head(merges).offset,
                                         Head(merges).range)}} : TRUE

\* Mutant of StageOrder: the ranges are cut before they are filled.
StageOrderCutBeforeFill ==
    <<"map_star12", "map_star12x", "map_star08", "remap", "cut_ranges",
      "fill_ranges", "merge_transparent", "merge_opaque", "address_ranges",
      "log_commands", "fill_all", "align", "split", "swap_word", "swap_long",
      "checksum">>

\* The statements of execute, by the name of the input each one reads, in the
\* order execute has them.
StageOrder ==
    <<"map_star12", "map_star12x", "map_star08", "remap", "fill_ranges",
      "cut_ranges", "merge_transparent", "merge_opaque", "address_ranges",
      "log_commands", "fill_all", "align", "split", "swap_word", "swap_long",
      "checksum">>

\* One statement of execute on the local hexfile; env holds the two closures
\* handed to execute and the build's overflow checks.
RunStage(stage, segs, p, env) ==
    IF stage = "map_star12"
    THEN StageDone(IF p.map_star12
                   THEN flag_map_star12(segs, env.overflow_checks) ELSE Ok(segs))
    ELSE IF stage = "map_star12x"
    THEN StageDone(IF p.map_star12x
                   THEN flag_map_star12x(segs, env.overflow_checks) ELSE Ok(segs))
    ELSE IF stage = "map_star08"
    THEN StageDone(IF p.map_star08 THEN flag_map_star08(segs) ELSE Ok(segs))
    ELSE IF stage = "remap"
    THEN StageDone(IF p.remap # None THEN flag_remap(segs, p.remap[1])
                   ELSE Ok(segs))
    ELSE IF stage = "fill_ranges"
    THEN StageDone(Ok(IF p.fill_pattern # None
                      THEN flag_fill_ranges_pattern(segs, p.fill_ranges,
                                                    p.fill_pattern[1])
                      ELSE flag_fill_ranges_random(segs, p.fill_ranges,
                                                   env.random_seed)))
    ELSE IF stage = "cut_ranges"
    THEN StageDone(Ok(flag_cut_ranges(segs, p.cut_ranges)))
    ELSE IF stage = "merge_transparent"
    THEN StageDone(MergeTransparentEach(segs, p.merge_transparent))
    ELSE IF stage = "merge_opaque"
    THEN StageDone(MergeOpaqueEach(segs, p.merge_opaque))
    ELSE IF stage = "address_ranges"
    THEN StageDone(Ok(flag_filter_ranges(segs, p.address_ranges)))
    ELSE IF stage = "log_commands"
    THEN StageDone(IF p.log_commands # None
                   THEN execute_log_commands(segs, p.log_commands[1], env.log_files)
                   ELSE Ok(segs))
    ELSE IF stage = "fill_all"
    THEN StageDone(Ok(IF p.fill_all # None THEN flag_fill_all(segs, p.fill_all[1])
                      ELSE segs))
    ELSE IF stage = "align"
    THEN StageDone(IF p.align # None
                   THEN flag_align(segs, p.align[1].alignment, p.align[1].fill_byte,
                                   p.align[1].align_length, env.overflow_checks)
                   ELSE Ok(segs))
    ELSE IF stage = "split"
    THEN StageDone(IF p.split # None
                   THEN flag_split(segs, p.split[1], env.overflow_checks)
                   ELSE Ok(segs))
    ELSE IF stage = "swap_word"
    THEN StageDone(IF p.swap_word THEN flag_swap_word(segs) ELSE Ok(segs))
    ELSE IF stage = "swap_long"
    THEN StageDone(IF p.swap_long THEN flag_swap_long(segs) ELSE Ok(segs))
    ELSE IF p.checksum # None
    THEN ChecksumDone(flag_checksum(segs, p.checksum[1].algorithm,
                                    p.checksum[1].range,
                                    p.checksum[1].little_endian_output,
                                    p.checksum[1].forced_range,
                                    p.checksum[1].exclude_ranges,
                                    p.checksum[1].target))
    ELSE StageDone(Ok(segs))

\* ------------------------------------------------------------- the actions
StartChoices == (0..NearEdge) \cup ((MaxAddr - NearEdge)..MaxAddr)

\* The data of the segment of n bytes handed over for address a: its bytes
\* differ from those of every other (address, length) choice.
StartIndex(a) == IF a <= NearEdge THEN a ELSE (NearEdge + 1) + (a - (MaxAddr - NearEdge))
DataFor(a, n) ==
    [i \in 1..n |-> (8 * (StartIndex(a) * (MaxLen + 1) + n) + i) % 256]

SegmentChoices ==
    {Segment(a, DataFor(a, n)) : a \in StartChoices, n \in 0..MaxLen}

\* The last Result a fallible call returned (value: the Ok payload, <<>> for
\* ()), and in call the arguments it was made with.
ResultValue(op, ok, err, value) ==
    [op |-> op, ok |-> ok, err |-> err, value |-> value]
Result(op, ok, err) == ResultValue(op, ok, err, <<>>)

\* No pipeline is executing.
NoPipeline == pc = "idle" /\ checksum_bytes = None /\ output = None

Init ==
    /\ segments = <<>>
    /\ call = <<>>
    /\ result = Result("new", TRUE, "")
    /\ NoPipeline

AppendSegment ==
    /\ Len(segments) < MaxSegs
    /\ \E seg \in SegmentChoices : segments' = append_segment(segments, seg)
    /\ UNCHANGED <<call, result, pc, checksum_bytes, output>>

PrependSegment ==
    /\ Len(segments) < MaxSegs
    /\ \E seg \in SegmentChoices : segments' = prepend_segment(segments, seg)
    /\ UNCHANGED <<call, result, pc, checksum_bytes, output>>

WriteBytes ==
    /\ Len(segments) < MaxSegs
    /\ \E seg \in SegmentChoices :
          segments' = write_bytes(segments, seg.start_address, seg.data)
    /\ UNCHANGED <<call, result, pc, checksum_bytes, output>>

Next == AppendSegment \/ PrependSegment \/ WriteBytes

Spec == Init /\ [][Next]_vars

\* ------------------------------------------- one call on an arbitrary image
\* Every image of at most n non-empty segments.
ImagesUpTo(n) ==
    UNION { [1..k -> {seg \in SegmentChoices : ~is_empty(seg)}] : k \in 0..n }

Images == ImagesUpTo(MaxSegs)

InitImage ==
    /\ segments \in Images
    /\ call = <<>>
    /\ result = Result("new", TRUE, "")
    /\ NoPipeline

\* A fallible call: the image is what the call left, result what it returned.
Returned(op, args, r) ==
    /\ segments' = r.segments
    /\ call' = args
    /\ result' = Result(op, r.ok, r.err)
    /\ UNCHANGED <<pc, checksum_bytes, output>>

ReturnedValue(op, args, r) ==
    /\ segments' = r.segments
    /\ call' = args
    /\ result' = ResultValue(op, r.ok, r.err, r.value)
    /\ UNCHANGED <<pc, checksum_bytes, output>>

FactorChoices == 0..3

ScaleAddresses ==
    /\ result.op = "new"
    /\ \E factor \in FactorChoices :
          Returned("scale_addresses", factor, scale_addresses(segments, factor))

UnscaleAddresses ==
    /\ result.op = "new"
    /\ \E divisor \in FactorChoices :
          Returned("unscale_addresses", divisor,
                   unscale_addresses(segments, divisor))

RemapChoices ==
    {RemapOptions(start, end, linear, size, inc) :
        start \in {0, 1, 2}, end \in {0, NearEdge + MaxLen, MaxAddr},
        linear \in {0, 4, MaxAddr - 1}, size \in {0, 2, 4}, inc \in {0, 2, 4}}

Remap ==
    /\ result.op = "new"
    /\ \E options \in RemapChoices :
          Returned("remap", options, remap(segments, options))

NextTransform == ScaleAddresses \/ UnscaleAddresses \/ Remap

SpecTransform == InitImage /\ [][NextTransform]_vars

\* ------------------------------------------------ one checksum on an image
InitChecksum ==
    /\ segments \in ImagesUpTo(MaxSegs - 1)
    /\ call = <<>>
    /\ result = Result("new", TRUE, "")
    /\ NoPipeline

\* The range, forced range and exclude list of a call; a forced range comes
\* with no range or a short one, as every address of the range is then given
\* a byte.
RangeChoices ==
    LET short == Some(Range(1, NearEdge + MaxLen))
        forced == Some(ForcedRange(Range(0, NearEdge + 1), <<>>))
        exclude == <<Range(1, 1)>>
    IN  {<<None, None, <<>>>>, <<None, None, exclude>>,
         <<short, None, <<>>>>, <<Some(Range(1, MaxAddr)), None, exclude>>,
         <<None, forced, exclude>>, <<short, forced, <<>>>>}

\* The CLI's targets: those of the library and Begin.
TargetChoices ==
    {ChecksumTarget("Address", a) : a \in StartChoices}
      \cup {ChecksumTarget(k, 0) :
               k \in {"Append", "Prepend", "OverwriteEnd", "Begin", "File"}}

\* apply_checksum's lib_target.
LibTarget(segs, target) ==
    IF target.kind = "Begin"
    THEN IF min_address(segs) # None
         THEN ChecksumTarget("Address", min_address(segs)[1])
         ELSE ChecksumTarget("Append", 0)
    ELSE target

ChecksumCall(options, target, lib_target) ==
    [options |-> options, target |-> target, lib_target |-> lib_target]

ApplyChecksumTo(algorithm, range, little_endian, forced_range, exclude_ranges, target, lib_target) ==
    ReturnedValue("checksum",
        ChecksumCall(ChecksumOptions(algorithm, range, little_endian,
                                     forced_range, exclude_ranges, None),
                     target, lib_target),
        flag_checksum(segments, algorithm, range, little_endian, forced_range,
                      exclude_ranges, lib_target))

ApplyChecksum ==
    /\ result.op = "new"
    /\ \E algorithm \in ChecksumAlgorithm, ranges \in RangeChoices,
          little_endian \in BOOLEAN, target \in TargetChoices :
          ApplyChecksumTo(algorithm, ranges[1], little_endian, ranges[2],
                          ranges[3], target, LibTarget(segments, target))

NextChecksum == ApplyChecksum

SpecChecksum == InitChecksum /\ [][NextChecksum]_vars


\* ------------------------------------------- one checksum calculation
\* The options of a calculation: word sums and a byte sum; no range, a short
\* one, and ranges reaching the last address; exclude lists of ranges that
\* overlap, touch, come unsorted, reach the last address and, together,
\* cover the effective range or every address.
CalculateAlgorithms == {"WordSumBe", "WordSumLeTwosComplement", "ByteSumBe"}

CalculateRanges ==
    {None, Some(Range(0, 3)), Some(Range(1, MaxAddr)),
     Some(Range(MaxAddr - 3, MaxAddr))}

CalculateForced ==
    {None, Some(ForcedRange(Range(0, 3), <<>>)),
     Some(ForcedRange(Range(MaxAddr - 1, MaxAddr), <<1>>))}

ExcludeChoices ==
    {Range(1, 1), Range(2, 3), Range(0, 1), Range(2, MaxAddr),
     Range(MaxAddr, MaxAddr), Range(1, MaxAddr - 1)}

MaxExcludes == 2
ExcludeLists == UNION {[1..n -> ExcludeChoices] : n \in 0..MaxExcludes}

\* A forced range comes with no range or a short one, as every address of
\* the range is then given a byte.
RangeAndForced ==
    {rf \in CalculateRanges \X CalculateForced :
        rf[2] # None => (rf[1] = None \/ length(rf[1][1]) <= 4)}

CalculateOptions ==
    {ChecksumOptions(algorithm, rf[1], FALSE, rf[2], exclude_ranges,
                     target_exclude) :
        algorithm \in CalculateAlgorithms, rf \in RangeAndForced,
        exclude_ranges \in ExcludeLists,
        target_exclude \in {None, Some(Range(0, 1))}}

InitCalculate ==
    /\ segments \in ImagesUpTo(MaxSegs - 1)
    /\ call = <<>>
    /\ result = Result("new", TRUE, "")
    /\ NoPipeline

\* calculate_checksum has returned r; it takes &self.
Calculated(options, r) ==
    /\ call' = options
    /\ result' = ResultValue("calculate_checksum", r.ok, r.err, r.data)
    /\ UNCHANGED <<segments, pc, checksum_bytes, output>>

CalculateChecksum ==
    /\ result.op = "new"
    /\ \E options \in CalculateOptions :
          Calculated(options, calculate_checksum(segments, options))

NextCalculate == CalculateChecksum

SpecCalculate == InitCalculate /\ [][NextCalculate]_vars

\* ------------------------------------------------- one Pipeline::execute
\* Most inputs of a pipeline that are not left at their default.
MaxStages == 4

PresetFields == {"map_star12", "map_star12x", "map_star08"}

\* The fields of Pipeline beside hexfile.
PipelineFields ==
    PresetFields \cup
    {"remap", "fill_ranges", "fill_pattern", "cut_ranges", "merge_transparent",
     "merge_opaque", "address_ranges", "log_commands", "fill_all", "align",
     "split", "swap_word", "swap_long", "checksum"}

\* The sets of fields a pipeline sets; at most one of the presets.
FieldSets ==
    {set \in SUBSET PipelineFields :
        /\ Cardinality(set) <= MaxStages
        /\ Cardinality(set \cap PresetFields) <= 1}

\* Where the input image lies: in the unbanked window at 0x4000 when a preset
\* is set (in the second variant of /S12MAP below the window of bank 0x30).
ImageBase(set, variant) ==
    IF "map_star12" \in set /\ variant = 2 THEN 3145728
    ELSE IF set \cap PresetFields # {} THEN 16384
    ELSE 0

\* Where the presets leave that image: the ranges, merged files and loaded
\* files of the later stages lie there.
MappedBase(set) ==
    IF "map_star12" \in set THEN 1015808
    ELSE IF "map_star12x" \in set THEN 8339456
    ELSE IF "map_star08" \in set THEN 1064960
    ELSE 0

InputImage(base) ==
    <<Segment(base + 1, <<1, 2, 3>>), Segment(base + 6, <<4, 5>>),
      Segment(base + 2, <<9>>)>>

\* The value a field is set to, in two variants; the second one has the
\* inputs the fallible stages reject.
FieldValue(field, variant, base) ==
    IF field \in PresetFields \cup {"swap_word", "swap_long"} THEN TRUE
    ELSE IF field = "remap"
    THEN Some(RemapOptions(base, base + 15, base + 2, IF variant = 1 THEN 4 ELSE 0, 4))
    ELSE IF field = "fill_ranges"
    THEN IF variant = 1 THEN <<Range(base, base + 4)>>
         ELSE <<Range(base + 3, base + 5), Range(base + 9, base + 9)>>
    ELSE IF field = "fill_pattern"
    THEN Some(IF variant = 1 THEN <<170, 187>> ELSE <<>>)
    ELSE IF field = "cut_ranges"
    THEN IF variant = 1 THEN <<Range(base + 2, base + 6)>>
         ELSE <<Range(base, base + 1), Range(base + 7, base + 8)>>
    ELSE IF field = "merge_transparent"
    THEN IF variant = 1
         THEN <<PipelineMerge(<<Segment(base + 3, <<7, 7, 7>>)>>, 0, None)>>
         ELSE <<PipelineMerge(<<Segment(base + 3, <<7, 7, 7>>)>>, 1,
                              Some(Range(base + 4, base + 5))),
                PipelineMerge(<<Segment(base + 1, <<6>>)>>, -2, None)>>
    ELSE IF field = "merge_opaque"
    THEN IF variant = 1
         THEN <<PipelineMerge(<<Segment(base + 2, <<8, 8>>)>>, 0, None)>>
         ELSE <<PipelineMerge(<<Segment(base, <<8, 8>>)>>, 7, None)>>
    ELSE IF field = "address_ranges"
    THEN IF variant = 1 THEN <<Range(base + 1, base + 7)>>
         ELSE <<Range(base + 2, base + 2), Range(base + 6, base + 12)>>
    ELSE IF field = "log_commands"
    THEN Some(IF variant = 1 THEN <<LogCommand(1, "FileOpen", "a.hex")>>
              ELSE <<LogCommand(1, "FileNew", ""), LogCommand(3, "FileOpen", "b.hex")>>)
    ELSE IF field = "fill_all" THEN Some(IF variant = 1 THEN 238 ELSE 0)
    ELSE IF field = "align"
    THEN Some(AlignOptions(IF variant = 1 THEN 4 ELSE 0, 255, TRUE))
    ELSE IF field = "split" THEN Some(IF variant = 1 THEN 2 ELSE 1)
    ELSE IF variant = 1
    THEN Some(PipelineChecksum("Crc16", None, FALSE, None, <<>>,
                               ChecksumTarget("Append", 0)))
    ELSE Some(PipelineChecksum("WordSumBe", None, TRUE, None,
                               <<Range(base + 3, base + 3)>>,
                               ChecksumTarget("Prepend", 0)))

\* Pipeline::default() for a field.
DefaultValue(field) ==
    IF field \in PresetFields \cup {"swap_word", "swap_long"} THEN FALSE
    ELSE IF field \in {"fill_ranges", "cut_ranges", "merge_transparent",
                       "merge_opaque", "address_ranges"} THEN <<>>
    ELSE None

Pipeline(set, variant) ==
    [field \in PipelineFields \cup {"hexfile"} |->
        IF field = "hexfile" THEN InputImage(ImageBase(set, variant))
        ELSE IF field \in set THEN FieldValue(field, variant, MappedBase(set))
        ELSE DefaultValue(field)]

\* The files the log loader finds.
LogFiles(base) ==
    [path \in {"a.hex"} |-> <<Segment(base + 4, <<10, 11, 12>>)>>]

\* A call of execute: the pipeline, the two closures, and the build.
ExecuteCall(set, variant, overflow_checks) ==
    [op |-> "execute", pipeline |-> Pipeline(set, variant), random_seed |-> 17,
     log_files |-> LogFiles(MappedBase(set)), overflow_checks |-> overflow_checks]

InitPipeline ==
    /\ segments = <<>>
    /\ call \in {ExecuteCall(set, variant, overflow_checks) :
                    set \in FieldSets, variant \in {1, 2},
                    overflow_checks \in BOOLEAN}
    /\ result = Result("new", TRUE, "")
    /\ pc = "execute"
    /\ checksum_bytes = None
    /\ output = None

\* let mut hexfile = self.hexfile;
ExecuteBegin ==
    /\ pc = "execute"
    /\ segments' = call.pipeline.hexfile
    /\ pc' = StageOrder[1]
    /\ UNCHANGED <<call, result, checksum_bytes, output>>

StageIndex(stage) == CHOOSE i \in DOMAIN StageOrder : StageOrder[i] = stage

\* Mutant of StageOutcome: the next statement follows a failed stage too.
StageOutcomeIgnoringError(stage, r) ==
    IF StageIndex(stage) = Len(StageOrder) THEN "return"
    ELSE StageOrder[StageIndex(stage) + 1]

\* Where execute goes after a stage: its "?" returns the error, else the next
\* statement follows, the Ok(PipelineResult {..}) after the last.
StageOutcome(stage, r) ==
    IF ~r.ok THEN "failed"
    ELSE IF StageIndex(stage) = Len(StageOrder) THEN "return"
    ELSE StageOrder[StageIndex(stage) + 1]

\* A stage that fails leaves execute with its error; the local hexfile is
\* dropped with the frame.
StageStep(stage, r) ==
    /\ pc' = StageOutcome(stage, r)
    /\ segments' = IF r.ok THEN r.segments ELSE <<>>
    /\ checksum_bytes' = IF stage = "checksum" THEN r.checksum_bytes
                         ELSE checksum_bytes
    /\ result' = IF r.ok THEN result
                 ELSE ResultValue("execute", FALSE, r.err, None)
    /\ UNCHANGED <<call, output>>

ExecuteStage ==
    /\ pc \in {StageOrder[i] : i \in DOMAIN StageOrder}
    /\ StageStep(pc, RunStage(pc, segments, call.pipeline, call))

\* Ok(PipelineResult { hexfile, checksum_bytes }): the local moves out.
ExecuteReturn ==
    /\ pc = "return"
    /\ result' = ResultValue("execute", TRUE, "",
                             PipelineResult(segments, checksum_bytes))
    /\ pc' = "returned"
    /\ segments' = <<>>
    /\ UNCHANGED <<call, checksum_bytes, output>>

\* execute_with_provider after pipeline.execute(..)?, with no /CS, /DP or
\* signature check requested: write_outputs is handed result.hexfile.
WriteOutputs ==
    /\ pc = "returned"
    /\ result.ok
    /\ output' = Some(result.value.hexfile)
    /\ pc' = "written"
    /\ UNCHANGED <<segments, call, result, checksum_bytes>>

NextPipeline == ExecuteBegin \/ ExecuteStage \/ ExecuteReturn \/ WriteOutputs

SpecPipeline == InitPipeline /\ [][NextPipeline]_vars


\* ------------------------------------------------ a request of the command
\* The options of Args a request sets beside its input, and the flags among
\* them that map addresses.
RequestFields ==
    PresetFields \cup {"remap", "merge_transparent", "merge_opaque", "cut_ranges"}

\* Args: the options as parsed (a merge with its file as loaded), the image
\* of the input file, and /PB.
RequestArgs(set, variant, postbuild) ==
    [s12_map |-> "map_star12" \in set,
     s12x_map |-> "map_star12x" \in set,
     s08_map |-> "map_star08" \in set,
     remap |-> IF "remap" \in set
               THEN FieldValue("remap", variant, MappedBase(set))
               ELSE DefaultValue("remap"),
     merge_transparent |-> IF "merge_transparent" \in set
                           THEN FieldValue("merge_transparent", variant, MappedBase(set))
                           ELSE DefaultValue("merge_transparent"),
     merge_opaque |-> IF "merge_opaque" \in set
                      THEN FieldValue("merge_opaque", variant, MappedBase(set))
                      ELSE DefaultValue("merge_opaque"),
     cut_ranges |-> IF "cut_ranges" \in set
                    THEN FieldValue("cut_ranges", variant, MappedBase(set))
                    ELSE DefaultValue("cut_ranges"),
     postbuild |-> postbuild,
     input_file |-> InputImage(ImageBase(set, variant))]

\* Result<(), CliError>
Supported == [ok |-> TRUE, err |-> ""]
Unsupported == [ok |-> FALSE, err |-> "Unsupported"]

\* Mutant of validate_supported_features: only the presets are checked
\* against each other.
validate_presets_only(args) ==
    IF args.s12_map /\ args.s12x_map THEN Unsupported
    ELSE IF args.s08_map /\ (args.s12_map \/ args.s12x_map) THEN Unsupported
    ELSE IF args.postbuild # None THEN Unsupported
    ELSE Supported

\* validate_supported_features, for a request with no /DP, /SV and import
\* options.
validate_supported_features(args) ==
    IF args.merge_transparent # <<>> /\ args.merge_opaque # <<>> THEN Unsupported
    ELSE IF args.s12_map /\ args.s12x_map THEN Unsupported
    ELSE IF args.s08_map /\ (args.s12_map \/ args.s12x_map) THEN Unsupported
    ELSE IF args.remap # None /\ (args.s12_map \/ args.s12x_map \/ args.s08_map)
    THEN Unsupported
    ELSE IF args.postbuild # None THEN Unsupported
    ELSE Supported

\* build_pipeline: the options of the request in a Pipeline, the rest of it
\* at its defaults.
build_pipeline(args, hexfile) ==
    [field \in PipelineFields \cup {"hexfile"} |->
        IF field = "hexfile" THEN hexfile
        ELSE IF field = "map_star12" THEN args.s12_map
        ELSE IF field = "map_star12x" THEN args.s12x_map
        ELSE IF field = "map_star08" THEN args.s08_map
        ELSE IF field = "remap" THEN args.remap
        ELSE IF field = "merge_transparent" THEN args.merge_transparent
        ELSE IF field = "merge_opaque" THEN args.merge_opaque
        ELSE IF field = "cut_ranges" THEN args.cut_ranges
        ELSE DefaultValue(field)]

\* A call of Args::execute: the request, what the host provides, the build,
\* and the pipeline once it is built.
RequestCall(args, overflow_checks) ==
    [op |-> "request", args |-> args, pipeline |-> None, random_seed |-> 17,
     log_files |-> LogFiles(0), overflow_checks |-> overflow_checks]

InitRequest ==
    /\ segments = <<>>
    /\ call \in {RequestCall(RequestArgs(set, variant, postbuild), overflow_checks) :
                    set \in SUBSET RequestFields, variant \in {1, 2},
                    postbuild \in {None, Some("post.cmd")},
                    overflow_checks \in BOOLEAN}
    /\ result = Result("new", TRUE, "")
    /\ pc = "validate"
    /\ checksum_bytes = None
    /\ output = None

\* self.validate_supported_features()?
Validate ==
    /\ pc = "validate"
    /\ pc' = IF validate_supported_features(call.args).ok THEN "build"
             ELSE "rejected"
    /\ result' = IF validate_supported_features(call.args).ok THEN result
                 ELSE ResultValue("execute", FALSE,
                                  validate_supported_features(call.args).err, None)
    /\ UNCHANGED <<segments, call, checksum_bytes, output>>

\* let hexfile = self.load_hexfile(provider)?; let pipeline =
\* self.build_pipeline(hexfile, provider)?;
BuildPipeline ==
    /\ pc = "build"
    /\ call' = [call EXCEPT !.pipeline =
                                build_pipeline(call.args, call.args.input_file)]
    /\ pc' = "execute"
    /\ UNCHANGED <<segments, result, checksum_bytes, output>>

NextRequest ==
    Validate \/ BuildPipeline \/ ExecuteBegin \/ ExecuteStage \/ ExecuteReturn \/ WriteOutputs

SpecRequest == InitRequest /\ [][NextRequest]_vars

\* ------------------------------------- one image operation on an image
\* A call of an operation: the image is what the call left, result what it
\* returned, and call its arguments with the image it was made on.
OperationCall(args, before) == [args |-> args, before |-> before]

ReturnedFrom(op, args, r) ==
    /\ segments' = r.segments
    /\ call' = OperationCall(args, segments)
    /\ result' = Result(op, r.ok, r.err)
    /\ UNCHANGED <<pc, checksum_bytes, output>>

AlignChoices ==
    {[options |-> AlignOptions(alignment, 255, align_length),
      overflow_checks |-> overflow_checks] :
        alignment \in {0, 2, 3, 4}, align_length \in BOOLEAN,
        overflow_checks \in BOOLEAN}

Align ==
    /\ result.op = "new"
    /\ \E args \in AlignChoices :
          ReturnedFrom("align", args,
                       align(segments, args.options, args.overflow_checks))

\* The images merged in: overlapping segments, a segment at the top of the
\* address space, and the empty image.
OtherChoices ==
    {<<>>,
     <<Segment(1, <<200, 201>>)>>,
     <<Segment(0, <<210, 211>>), Segment(1, <<212, 213>>)>>,
     <<Segment(MaxAddr - 1, <<220, 221>>), Segment(2, <<222>>)>>}

\* offset is an i64: it may exceed the address space in both directions.
OffsetChoices == {0, 1, -1, MaxAddr - 2, -MaxAddr, MaxAddr + 2}

MergeChoices ==
    {[other |-> other, options |-> MergeOptions(mode, offset, range)] :
        other \in OtherChoices, mode \in {"Overwrite", "Preserve"},
        offset \in OffsetChoices, range \in {None, Some(Range(1, MaxAddr - 1))}}

Merge ==
    /\ result.op = "new"
    /\ Len(segments) < MaxSegs
    /\ \E args \in MergeChoices :
          ReturnedFrom("merge", args, Ok(merge(segments, args.other, args.options)))

\* The ranges of a fill, cut or filter: at both ends of the address space.
RangeOpChoices ==
    {Range(0, 2), Range(1, 1), Range(2, NearEdge + MaxLen),
     Range(MaxAddr - 2, MaxAddr), Range(MaxAddr, MaxAddr)}

FillChoices ==
    {[range |-> range, options |-> FillOptions(pattern, overwrite)] :
        range \in RangeOpChoices, pattern \in {<<>>, <<170>>, <<170, 187>>},
        overwrite \in BOOLEAN}

FillRange ==
    /\ result.op = "new"
    /\ \E args \in FillChoices :
          ReturnedFrom("fill", args, Ok(fill(segments, args.range, args.options)))

CutRange ==
    /\ result.op = "new"
    /\ \E range \in RangeOpChoices :
          ReturnedFrom("cut", [range |-> range], Ok(cut(segments, range)))

\* Lists of up to two ranges.
RangeLists ==
    {<<>>} \cup {<<r>> : r \in RangeOpChoices}
           \cup {<<r1, r2>> : r1, r2 \in RangeOpChoices}

CutRanges ==
    /\ result.op = "new"
    /\ \E ranges \in RangeLists :
          ReturnedFrom("cut_ranges", [ranges |-> ranges],
                       Ok(cut_ranges(segments, ranges)))

\* hf.cut(r); hf.fill(r, &FillOptions { pattern, overwrite: false }): the
\* fill that follows a cut of the same range; cut_before is the image the
\* cut was applied to.
FillAfterCut ==
    /\ result.op = "cut"
    /\ \E pattern \in {<<170>>, <<170, 187>>} :
          /\ segments' = fill(segments, call.args.range,
                              FillOptions(pattern, FALSE))
          /\ call' = [args |-> [range |-> call.args.range,
                                options |-> FillOptions(pattern, FALSE)],
                      before |-> segments, cut_before |-> call.before]
          /\ result' = Result("cut_fill", TRUE, "")
          /\ UNCHANGED <<pc, checksum_bytes, output>>

\* Images with a segment longer than MaxLen, ending below, at and beyond the
\* last address.
LongData == <<241, 242, 243, 244>>
LongStarts == {0, 1, MaxAddr - 4, MaxAddr - 3, MaxAddr - 2}
LongImages ==
    {<<Segment(a, LongData)>> \o img : a \in LongStarts, img \in ImagesUpTo(1)}
    \cup
    {img \o <<Segment(a, LongData)>> : a \in LongStarts, img \in ImagesUpTo(1)}

InitOps ==
    /\ segments \in Images \cup LongImages
    /\ call = <<>>
    /\ result = Result("new", TRUE, "")
    /\ NoPipeline

FilterRanges ==
    /\ result.op = "new"
    /\ \E ranges \in RangeLists :
          ReturnedFrom("filter_ranges", [ranges |-> ranges],
                       Ok(filter_ranges(segments, ranges)))

SplitChoices ==
    {[max_size |-> max_size, overflow_checks |-> overflow_checks] :
        max_size \in 0..3, overflow_checks \in BOOLEAN}

Split ==
    /\ result.op = "new"
    /\ \E args \in SplitChoices :
          ReturnedFrom("split", args,
                       split(segments, args.max_size, args.overflow_checks))

NextOps == Align \/ Merge \/ FillRange \/ CutRange \/ CutRanges \/ FillAfterCut \/ FilterRanges \/ Split

SpecOps == InitOps /\ [][NextOps]_vars

\* ------------------------------------------------ the stages that take a list
\* A stage of this kind walks its list with a for loop; the loop's position
\* is result.value, the number of entries it has applied.
ListCall(stage, entries, before) ==
    [stage |-> stage, entries |-> entries, before |-> before,
     log_files |-> LogFiles(0)]

MergeEntryChoices ==
    {PipelineMerge(<<Segment(1, <<7, 7, 7>>)>>, 0, None),
     PipelineMerge(<<Segment(2, <<6, 6>>)>>, 0, None),
     PipelineMerge(<<Segment(0, <<5, 5>>)>>, 1, Some(Range(1, 1)))}

LogCommandChoices ==
    {LogCommand(1, "FileOpen", "a.hex"), LogCommand(2, "FileOpen", "b.hex"),
     LogCommand(3, "FileNew", "")}

ChecksumEntryChoices ==
    {PipelineChecksum("ByteSumBe", None, FALSE, None, <<>>, target) :
        target \in {ChecksumTarget("Address", 1), ChecksumTarget("Append", 0),
                    ChecksumTarget("Begin", 0)}}

\* The lists of at most MaxEntries entries.
MaxEntries == 2
ListsOf(choices) == UNION {[1..n -> choices] : n \in 0..MaxEntries}

InitLists ==
    /\ segments \in ImagesUpTo(1)
    /\ \E stage \in {"merge_transparent", "merge_opaque", "log_commands",
                     "checksum_multi"} :
          \E entries \in ListsOf(IF stage = "log_commands" THEN LogCommandChoices
                                 ELSE IF stage = "checksum_multi"
                                 THEN ChecksumEntryChoices
                                 ELSE MergeEntryChoices) :
              call = ListCall(stage, entries, segments)
    /\ result = ResultValue("list", TRUE, "", 0)
    /\ pc = "entries"
    /\ checksum_bytes = None
    /\ output = None

\* Mutant of NextEntry: the list is walked from its end.
NextEntryReversed(entries, done) == entries[Len(entries) - done]

\* for entry in &list: the entry the loop takes after done entries.
NextEntry(entries, done) == entries[done + 1]

\* The loop has an entry left to take in the stage named.
AtEntryOf(stage) ==
    /\ pc = "entries"
    /\ call.stage = stage
    /\ result.ok
    /\ result.value < Len(call.entries)

\* The body's call has returned r ("?" leaves the loop on an error).
EntryStep(r) ==
    /\ segments' = r.segments
    /\ result' = ResultValue("list", r.ok, r.err, result.value + 1)
    /\ UNCHANGED <<call, pc, checksum_bytes, output>>

\* for merge in &self.merge_transparent { flag_merge_transparent(..)?; }
MergeTransparentEntry ==
    /\ AtEntryOf("merge_transparent")
    /\ EntryStep(flag_merge_transparent(segments,
                     NextEntry(call.entries, result.value).other,
                     NextEntry(call.entries, result.value).offset,
                     NextEntry(call.entries, result.value).range))

\* for merge in &self.merge_opaque { flag_merge_opaque(..)?; }
MergeOpaqueEntry ==
    /\ AtEntryOf("merge_opaque")
    /\ EntryStep(flag_merge_opaque(segments,
                     NextEntry(call.entries, result.value).other,
                     NextEntry(call.entries, result.value).offset,
                     NextEntry(call.entries, result.value).range))

\* for command in commands { match command { .. } } of execute_log_commands.
LogCommandEntry ==
    /\ AtEntryOf("log_commands")
    /\ EntryStep(LogCommandDone(segments,
                     NextEntry(call.entries, result.value),
                     log_loader(call.log_files,
                                NextEntry(call.entries, result.value).path)))

\* One entry of /CSM, /CSMR: a checksum applied to the image as /CS applies
\* it.
ChecksumMultiApply(segs, entry) ==
    flag_checksum(segs, entry.algorithm, entry.range,
                  entry.little_endian_output, entry.forced_range,
                  entry.exclude_ranges, LibTarget(segs, entry.target))

ChecksumMultiEntry ==
    /\ AtEntryOf("checksum_multi")
    /\ EntryStep(ChecksumMultiApply(segments,
                                    NextEntry(call.entries, result.value)))

NextLists ==
    MergeTransparentEntry \/ MergeOpaqueEntry \/ LogCommandEntry \/ ChecksumMultiEntry

SpecLists == InitLists /\ [][NextLists]_vars

\* ------------------------------------------------- a list of log commands
\* The files the loader of a log finds: two of them, with different images.
LoadableFiles ==
    [path \in {"a.hex", "c.hex"} |->
        IF path = "a.hex" THEN <<Segment(4, <<10, 11, 12>>)>>
        ELSE <<Segment(MaxAddr - 1, <<13, 14>>), Segment(0, <<15>>)>>]

\* The commands a line of a log can hold, and the lines of a log.
MaxCommands == 3
MaxLine == 4
CommandKinds ==
    {<<"FileOpen", "a.hex">>, <<"FileOpen", "c.hex">>, <<"FileOpen", "missing.hex">>,
     <<"FileClose", "">>, <<"FileNew", "">>}

\* The logs of at most MaxCommands commands, on lines that grow.
LogLists ==
    UNION {{[i \in 1..n |-> LogCommand(lines[i], kinds[i][1], kinds[i][2])] :
               lines \in {l \in [1..n -> 1..MaxLine] :
                             \A i \in 1..(n - 1) : l[i] < l[i + 1]},
               kinds \in [1..n -> CommandKinds]} : n \in 0..MaxCommands}

LogCall(commands, before) ==
    [commands |-> commands, before |-> before, log_files |-> LoadableFiles]

InitLog ==
    /\ segments \in ImagesUpTo(1)
    /\ call \in {LogCall(commands, segments) : commands \in LogLists}
    /\ result = Result("new", TRUE, "")
    /\ NoPipeline

\* execute_log_commands has returned r: Ok(()), or the error with its line.
LogReturned(r) ==
    /\ segments' = r.segments
    /\ result' = ResultValue("execute_log_commands", r.ok, r.err,
                             IF r.ok THEN None ELSE Some(r.line))
    /\ UNCHANGED <<call, pc, checksum_bytes, output>>

ExecuteLogCommands ==
    /\ result.op = "new"
    /\ LogReturned(execute_log_commands(segments, call.commands, call.log_files))

NextLog == ExecuteLogCommands

SpecLog == InitLog /\ [][NextLog]_vars

\* ------------------------------------------------------------------ codecs
\* A stream is the sequence of its non-blank lines; a line is its leading
\* mark (the characters ":", or "S" and the record digit) and its hex digits,
\* each a value 0..15 (the parsers take both cases of a letter).
Line(mark, hex) == [mark |-> mark, hex |-> hex]

\* HEX_CHARS[byte >> 4], HEX_CHARS[byte & 0x0F] for each byte.
write_hex_byte(bytes) ==
    SubSeq([i \in 1..(2 * Len(bytes)) |->
               IF i % 2 = 1 THEN bytes[(i + 1) \div 2] \div 16
               ELSE bytes[i \div 2] % 16], 1, 2 * Len(bytes))

\* (high << 4) | low for each pair of digits; None for an odd number.
parse_hex_bytes(hex) ==
    IF Len(hex) % 2 # 0 THEN None
    ELSE Some(SubSeq([i \in 1..(Len(hex) \div 2) |->
                         hex[2 * i - 1] * 16 + hex[2 * i]],
                     1, Len(hex) \div 2))

\* fold(0u8, wrapping_add), summed by halves.
RECURSIVE WrappingSum(_)
WrappingSum(bytes) ==
    IF bytes = <<>> THEN 0
    ELSE IF Len(bytes) = 1 THEN bytes[1] % 256
    ELSE (WrappingSum(SubSeq(bytes, 1, Len(bytes) \div 2))
          + WrappingSum(SubSeq(bytes, Len(bytes) \div 2 + 1, Len(bytes)))) % 256

\* address.to_be_bytes() of a u16, and of a u32.
BeBytes16(v) == <<(v \div 256) % 256, v % 256>>
BeBytes32(v) == <<(v \div 16777216) % 256, (v \div 65536) % 256, (v \div 256) % 256, v % 256>>

\* ---- Intel-HEX
IntelHexWriteOptions(bytes_per_line, mode) ==
    [bytes_per_line |-> bytes_per_line, mode |-> mode]

\* The bytes of a record before its checksum.
RecordBytes(record_type, address, data) ==
    <<Len(data) % 256>> \o BeBytes16(address) \o <<record_type>> \o data

\* write_record: checksum = (!sum).wrapping_add(1).
write_record(record_type, address, data) ==
    Line(<<":">>, write_hex_byte(
                  RecordBytes(record_type, address, data)
                  \o <<(256 - WrappingSum(RecordBytes(record_type, address, data)))
                         % 256>>))

\* fn normalized_sorted_segments
normalized_sorted_segments(segs) == sort_by_start(normalized_lossy(segs))

\* line_mode and needed_extended of one pass of the while loop.
LineMode(options, addr) ==
    IF options.mode # "Auto" THEN options.mode
    ELSE IF addr > 1048575 THEN "ExtendedLinear"
    ELSE "ExtendedSegment"

NeededExtended(line_mode, addr) ==
    IF line_mode = "ExtendedLinear" THEN (addr \div 65536) % 65536
    ELSE ((addr \div 65536) % 16) * 4096

\* should_emit, with the exception of Auto for addresses up to 0xFFFF.
ShouldEmit(options, line_mode, addr, current_extended, current_mode) ==
    IF options.mode = "Auto" /\ line_mode = "ExtendedSegment" /\ addr <= 65535
       /\ current_mode = None /\ current_extended = None
    THEN FALSE
    ELSE current_extended # Some(NeededExtended(line_mode, addr))
           \/ current_mode # Some(line_mode)

\* chunk_len = bytes_per_line.min(remaining_in_bank).min(remaining_data)
ChunkLen(bytes_per_line, addr, remaining_data) ==
    Min2(Min2(bytes_per_line, 65536 - (addr % 65536)), remaining_data)

\* The loop's variables after a pass: where the writer stands.
WriterAt(addr, data_offset, current_extended, current_mode, out) ==
    [addr |-> addr, data_offset |-> data_offset,
     current_extended |-> current_extended, current_mode |-> current_mode,
     out |-> out]

\* One pass of the while loop: the extended record if one is due, the data
\* record, and the loop's variables advanced (addr wraps).
WritePass(w, segment, options, bytes_per_line, line_mode, emit, chunk_len) ==
    WriterAt((w.addr + chunk_len) % (MaxAddr + 1),
             w.data_offset + chunk_len,
             IF emit THEN Some(NeededExtended(line_mode, w.addr))
             ELSE w.current_extended,
             IF emit THEN Some(line_mode) ELSE w.current_mode,
             w.out
             \o (IF emit
                 THEN <<write_record(IF line_mode = "ExtendedLinear" THEN 4 ELSE 2,
                                     0, BeBytes16(NeededExtended(line_mode, w.addr)))>>
                 ELSE <<>>)
             \o <<write_record(0, w.addr % 65536,
                               SubSeq(segment.data, w.data_offset + 1,
                                      w.data_offset + chunk_len))>>)

\* while data_offset < segment.len() { .. }
RECURSIVE WriteSegment(_, _, _, _)
WriteSegment(w, segment, options, bytes_per_line) ==
    IF w.data_offset >= Len(segment.data) THEN w
    ELSE CHOOSE done \in
            {WriteSegment(next, segment, options, bytes_per_line) :
                next \in {WritePass(w, segment, options, bytes_per_line,
                              LineMode(options, w.addr),
                              ShouldEmit(options, LineMode(options, w.addr), w.addr,
                                         w.current_extended, w.current_mode),
                              ChunkLen(bytes_per_line, w.addr,
                                       Len(segment.data) - w.data_offset))}} : TRUE

\* for segment in segments { let mut addr = ..; let mut data_offset = 0; .. }
RECURSIVE WriteSegments(_, _, _, _)
WriteSegments(w, segs, options, bytes_per_line) ==
    IF segs = <<>> THEN w
    ELSE CHOOSE done \in
            {WriteSegments(next, Tail(segs), options, bytes_per_line) :
                next \in {WriteSegment(
                              WriterAt(Head(segs).start_address, 0,
                                       w.current_extended, w.current_mode, w.out),
                              Head(segs), options, bytes_per_line)}} : TRUE

\* Mutant of write_intel_hex: a bytes_per_line of 0 is taken to mean no limit.
write_intel_hex_unlimited(segs, options) ==
    WriteSegments(WriterAt(0, 0, None,
                           IF options.mode = "Auto" THEN None ELSE Some(options.mode),
                           <<>>),
                  normalized_sorted_segments(segs), options,
                  IF options.bytes_per_line = 0 THEN 255
                  ELSE options.bytes_per_line).out
    \o <<write_record(1, 0, <<>>)>>

write_intel_hex(segs, options) ==
    WriteSegments(WriterAt(0, 0, None,
                           IF options.mode = "Auto" THEN None ELSE Some(options.mode),
                           <<>>),
                  normalized_sorted_segments(segs), options,
                  IF options.bytes_per_line = 0 THEN 16
                  ELSE options.bytes_per_line).out
    \o <<write_record(1, 0, <<>>)>>

\* Result<HexFile, ParseError>
ParseOk(segs) == [ok |-> TRUE, err |-> "", segments |-> segs]
ParseErr(e) == [ok |-> FALSE, err |-> e, segments |-> <<>>]

\* The parser's variables between two lines.
ParserAt(segs, current_segment, extended_address, eof_seen) ==
    [segments |-> segs, current_segment |-> current_segment,
     extended_address |-> extended_address, eof_seen |-> eof_seen, err |-> ""]

ParserFailed(p, e) == [p EXCEPT !.err = e]

\* RECORD_DATA: the match on current_segment.
ParseData(p, full_address, data) ==
    IF p.current_segment = None
    THEN [p EXCEPT !.current_segment = Some(Segment(full_address, data))]
    ELSE IF checked_add(end_address(p.current_segment[1]), 1) = Some(full_address)
    THEN [p EXCEPT !.current_segment =
                       Some(Segment(p.current_segment[1].start_address,
                                    p.current_segment[1].data \o data))]
    ELSE [p EXCEPT !.segments = Append(@, p.current_segment[1]),
                   !.current_segment = Some(Segment(full_address, data))]

\* RECORD_EXTENDED_SEGMENT (shift 16) and RECORD_EXTENDED_LINEAR (shift
\* 65536): current_segment.take() is pushed, the base is set.
ParseExtended(p, byte_count, data, shift) ==
    IF byte_count # 2 THEN ParserFailed(p, "InvalidRecord")
    ELSE [p EXCEPT !.segments = IF p.current_segment # None
                                 THEN Append(@, p.current_segment[1]) ELSE @,
                   !.current_segment = None,
                   !.extended_address = (data[1] * 256 + data[2]) * shift]

\* match record_type { .. } for a record with a valid checksum and count.
ParseRecordType(p, byte_count, address, record_type, data) ==
    IF record_type = 0
    THEN IF checked_add(p.extended_address, address) = None
         THEN ParserFailed(p, "AddressOverflow")
         ELSE IF byte_count > 0
                 /\ checked_add(p.extended_address + address, byte_count - 1) = None
         THEN ParserFailed(p, "AddressOverflow")
         ELSE ParseData(p, p.extended_address + address, data)
    ELSE IF record_type = 1 THEN [p EXCEPT !.eof_seen = TRUE]
    ELSE IF record_type = 2 THEN ParseExtended(p, byte_count, data, 16)
    ELSE IF record_type = 4 THEN ParseExtended(p, byte_count, data, 65536)
    ELSE IF record_type \in {3, 5} THEN p
    ELSE ParserFailed(p, "UnsupportedRecordType")

\* The checks on the bytes of a line: validate_checksum, then the count.
ParseRecordBytes(p, bytes) ==
    IF bytes = None THEN ParserFailed(p, "InvalidRecord")
    ELSE IF WrappingSum(bytes[1]) # 0 THEN ParserFailed(p, "ChecksumMismatch")
    ELSE IF Len(bytes[1]) # 5 + bytes[1][1] THEN ParserFailed(p, "InvalidRecord")
    ELSE ParseRecordType(p, bytes[1][1], bytes[1][2] * 256 + bytes[1][3],
                         bytes[1][4],
                         SubSeq(bytes[1], 5, 4 + bytes[1][1]))

\* The body of the loop over the lines.
ParseLine(p, line) ==
    IF p.eof_seen THEN ParserFailed(p, "InvalidRecord")
    ELSE IF line.mark[1] # ":" THEN ParserFailed(p, "InvalidRecord")
    ELSE IF Len(line.hex) < 10 THEN ParserFailed(p, "InvalidRecord")
    ELSE ParseRecordBytes(p, parse_hex_bytes(line.hex))

\* for line in lines { .. }: the lines of the first half, then those of
\* the second.
RECURSIVE ParseLines(_, _)
ParseLines(p, lines) ==
    IF lines = <<>> \/ p.err # "" THEN p
    ELSE IF Len(lines) = 1 THEN ParseLine(p, lines[1])
    ELSE CHOOSE done \in
            {ParseLines(half, SubSeq(lines, Len(lines) \div 2 + 1, Len(lines))) :
                half \in {ParseLines(p, SubSeq(lines, 1, Len(lines) \div 2))}} : TRUE

\* What follows the loop.
ParseEnd(p) ==
    IF p.err # "" THEN ParseErr(p.err)
    ELSE IF ~p.eof_seen THEN ParseErr("UnexpectedEof")
    ELSE ParseOk(set_segments(IF p.current_segment # None
                              THEN Append(p.segments, p.current_segment[1])
                              ELSE p.segments))

parse_intel_hex(lines) == ParseEnd(ParseLines(ParserAt(<<>>, None, 0, FALSE), lines))

\* ---- S-Record
SRecordWriteOptions(bytes_per_line, record_type) ==
    [bytes_per_line |-> bytes_per_line, record_type |-> record_type]

\* Result<Vec<u8>, ParseError> of write_srec.
WriteOk(lines) == [ok |-> TRUE, err |-> "", lines |-> lines]
WriteErr(e) == [ok |-> FALSE, err |-> e, lines |-> <<>>]

\* addr_len of a record type.
AddrLen(record_type) ==
    IF record_type = "S1" THEN 2 ELSE IF record_type = "S2" THEN 3 ELSE 4

\* record_digit of a record type.
RecordDigit(record_type) ==
    IF record_type = "S1" THEN "1" ELSE IF record_type = "S2" THEN "2" ELSE "3"

max_address_for(record_type) ==
    IF record_type = "S1" THEN 65535
    ELSE IF record_type = "S2" THEN 16777215
    ELSE MaxAddr

\* 0xFF.wrapping_sub(sum)
expected_checksum(bytes) == (255 - WrappingSum(bytes)) % 256

checksum_valid(bytes) == WrappingSum(bytes) = 255

\* push_record_line: 'S', the digit, the record's bytes and its checksum.
push_record_line(record_digit, record) ==
    Line(<<"S", record_digit>>,
         write_hex_byte(record \o <<expected_checksum(record)>>))

\* The record of one chunk: count (as u8), the low addr_len bytes of addr,
\* the chunk.
ChunkRecord(addr, addr_len, chunk) ==
    <<(addr_len + Len(chunk) + 1) % 256>>
    \o SubSeq(BeBytes32(addr), 5 - addr_len, 4)
    \o chunk

\* for chunk in segment.data.chunks(bytes_per_line) { .. addr =
\* addr.checked_add(chunk.len())? }: chunk k starts bytes_per_line * (k - 1)
\* after the first, and the addition after the last chunk is the one that
\* fails first or not at all.
WriteChunks(addr, data, bytes_per_line, addr_len, record_digit) ==
    IF data = <<>> THEN WriteOk(<<>>)
    ELSE IF checked_add(addr, Len(data)) = None
    THEN WriteErr("AddressOverflow")
    ELSE WriteOk(SubSeq(
             [k \in 1..((Len(data) + bytes_per_line - 1) \div bytes_per_line) |->
                 push_record_line(record_digit,
                     ChunkRecord(addr + bytes_per_line * (k - 1), addr_len,
                         SubSeq(data, bytes_per_line * (k - 1) + 1,
                                Min2(bytes_per_line * k, Len(data)))))],
             1, (Len(data) + bytes_per_line - 1) \div bytes_per_line))

RECURSIVE WriteSrecSegments(_, _, _, _)
WriteSrecSegments(segs, bytes_per_line, addr_len, record_digit) ==
    IF segs = <<>> THEN WriteOk(<<>>)
    ELSE CHOOSE done \in
            {IF ~first.ok THEN first
             ELSE CHOOSE all \in
                    {IF rest.ok THEN WriteOk(first.lines \o rest.lines) ELSE rest :
                        rest \in {WriteSrecSegments(Tail(segs), bytes_per_line,
                                                    addr_len, record_digit)}} : TRUE :
                first \in {WriteChunks(Head(segs).start_address, Head(segs).data,
                                       bytes_per_line, addr_len, record_digit)}} : TRUE

\* The terminator: S9, S8 or S7 with a zero address.
Terminator(record_type) ==
    push_record_line(IF record_type = "S1" THEN "9"
                     ELSE IF record_type = "S2" THEN "8" ELSE "7",
                     <<AddrLen(record_type) + 1>>
                     \o SubSeq(<<0, 0, 0, 0>>, 5 - AddrLen(record_type), 4))

AutoType(max_addr) ==
    IF max_addr <= 65535 THEN "S1"
    ELSE IF max_addr <= 16777215 THEN "S2"
    ELSE "S3"

WriteSrecAs(image, record_type, bytes_per_line, records) ==
    IF ~records.ok THEN records
    ELSE WriteOk(records.lines \o <<Terminator(record_type)>>)

WriteSrecType(image, record_type, bytes_per_line) ==
    WriteSrecAs(image, record_type, bytes_per_line,
                WriteSrecSegments(normalized_sorted_segments(image),
                                  bytes_per_line, AddrLen(record_type),
                                  RecordDigit(record_type)))

WriteSrecNormalized(image, max_addr, options) ==
    IF options.record_type # None /\ max_addr > max_address_for(options.record_type[1])
    THEN WriteErr("AddressOverflow")
    ELSE WriteSrecType(image,
                       IF options.record_type # None THEN options.record_type[1]
                       ELSE AutoType(max_addr),
                       IF options.bytes_per_line = 0 THEN 16
                       ELSE options.bytes_per_line)

write_srec(segs, options) ==
    WriteSrecNormalized(normalized_lossy(segs),
                        IF max_address(normalized_lossy(segs)) = None THEN 0
                        ELSE max_address(normalized_lossy(segs))[1],
                        options)

\* parse_address: the bytes folded big-endian.
RECURSIVE parse_address(_)
parse_address(bytes) ==
    IF bytes = <<>> THEN 0
    ELSE parse_address(SubSeq(bytes, 1, Len(bytes) - 1)) * 256 + bytes[Len(bytes)]

\* The arm for S1, S2, S3 of a record with valid count and checksum.
ParseSrecData(segs, record_bytes, addr_len, data_len) ==
    IF data_len < 0 THEN ParseErr("InvalidRecord")
    ELSE IF data_len = 0 THEN ParseOk(segs)
    ELSE IF checked_add(parse_address(SubSeq(record_bytes, 2, 1 + addr_len)),
                        data_len - 1) = None
    THEN ParseErr("AddressOverflow")
    ELSE ParseOk(append_segment(segs,
             Segment(parse_address(SubSeq(record_bytes, 2, 1 + addr_len)),
                     SubSeq(record_bytes, 2 + addr_len, 1 + addr_len + data_len))))

ParseSrecBytes(segs, record_digit, record_bytes) ==
    IF record_bytes = None THEN ParseErr("InvalidRecord")
    ELSE IF record_bytes[1] = <<>> THEN ParseErr("InvalidRecord")
    ELSE IF Len(record_bytes[1]) # record_bytes[1][1] + 1
    THEN ParseErr("InvalidRecord")
    ELSE IF ~checksum_valid(record_bytes[1]) THEN ParseErr("ChecksumMismatch")
    ELSE IF record_digit \in {"0", "5", "7", "8", "9"} THEN ParseOk(segs)
    ELSE IF record_digit \in {"1", "2", "3"}
    THEN ParseSrecData(segs, record_bytes[1],
                       IF record_digit = "1" THEN 2
                       ELSE IF record_digit = "2" THEN 3 ELSE 4,
                       record_bytes[1][1]
                           - ((IF record_digit = "1" THEN 2
                               ELSE IF record_digit = "2" THEN 3 ELSE 4) + 1))
    ELSE ParseErr("UnsupportedRecordType")

ParseSrecLine(segs, line) ==
    IF Len(line.mark) < 2 \/ line.mark[1] # "S"
    THEN ParseErr("InvalidRecord")
    ELSE ParseSrecBytes(segs, line.mark[2], parse_hex_bytes(line.hex))

\* for line in lines { .. }: the lines of the first half, then those of
\* the second.
RECURSIVE ParseSrecLines(_, _)
ParseSrecLines(segs, lines) ==
    IF lines = <<>> THEN ParseOk(segs)
    ELSE IF Len(lines) = 1 THEN ParseSrecLine(segs, lines[1])
    ELSE CHOOSE done \in
            {IF r.ok
             THEN ParseSrecLines(r.segments,
                                 SubSeq(lines, Len(lines) \div 2 + 1, Len(lines)))
             ELSE r :
                r \in {ParseSrecLines(segs, SubSeq(lines, 1, Len(lines) \div 2))}} : TRUE

parse_srec(lines) == ParseSrecLines(<<>>, lines)

\* ------------------------------------------- parse, write and parse again
\* The bytes of the n-byte record of item k of a stream.
ItemData(k, n) == SubSeq([i \in 1..n |-> (16 * k + i) % 256], 1, n)

\* Data records of one and two bytes, and long ones.
MaxData == 2
LongData40 == 40
LongData130 == 130

\* An extended segment base of 0x1000, an extended linear base of 0x0010, and
\* the last extended linear base of the address space.
ExtendedChoices == {None, Some(<<2, 4096>>), Some(<<4, 16>>), Some(<<4, MaxAddr \div 65536>>)}

\* The lines of one item of an Intel-HEX stream: an extended address record
\* or none, and a data record.
IntelHexItem(extended, address, data) ==
    (IF extended = None THEN <<>>
     ELSE <<write_record(extended[1][1], 0, BeBytes16(extended[1][2]))>>)
    \o <<write_record(0, address, data)>>

IntelHexItems(k) ==
    {IntelHexItem(extended, address, ItemData(k, n)) :
        extended \in ExtendedChoices, address \in {0, 65534, 65535}, n \in 1..MaxData}

\* Streams of one and two items, streams with a long record at the start and
\* at the end of a 64 KiB bank, and one with a start address record; each
\* ends with the end-of-file record.
IntelHexStreams ==
    {first \o <<write_record(1, 0, <<>>)>> : first \in IntelHexItems(1)}
    \cup
    {first \o second \o <<write_record(1, 0, <<>>)>> :
        first \in IntelHexItems(1), second \in IntelHexItems(2)}
    \cup
    {IntelHexItem(extended, address, ItemData(3, LongData40))
     \o <<write_record(1, 0, <<>>)>> :
        extended \in {None, Some(<<4, 16>>)}, address \in {256, 65504}}
    \cup
    {<<write_record(5, 0, <<0, 0, 1, 0>>)>> \o IntelHexItem(None, 16, ItemData(4, 2))
     \o <<write_record(1, 0, <<>>)>>}

\* A data record of an S-Record stream.
SrecItem(record_type, addr, data) ==
    push_record_line(RecordDigit(record_type),
                     ChunkRecord(addr, AddrLen(record_type), data))

SrecItems(k) ==
    {SrecItem(record_type, addr, ItemData(k, n)) :
        record_type \in {"S1", "S2", "S3"}, addr \in {0, 65535}, n \in 1..MaxData}
    \cup
    {SrecItem(record_type, 65536, ItemData(k, n)) :
        record_type \in {"S2", "S3"}, n \in 1..MaxData}
    \cup
    {SrecItem("S3", MaxAddr - 1, ItemData(k, n)) : n \in 1..MaxData}

\* Streams of one and two records between a header and a terminator, and one
\* of two long contiguous records.
SrecStreams ==
    {<<push_record_line("0", <<3, 0, 0>>), first, Terminator("S1")>> :
        first \in SrecItems(1)}
    \cup
    {<<first, second, Terminator("S3")>> :
        first \in SrecItems(1), second \in SrecItems(2)}
    \cup
    {<<SrecItem("S3", 256, ItemData(3, LongData130)),
       SrecItem("S3", 256 + LongData130, ItemData(4, LongData130)),
       Terminator("S3")>>}

CodecCall(format, input, options) ==
    [format |-> format, input |-> input, options |-> options]

InitCodec ==
    /\ segments = <<>>
    /\ call \in {CodecCall("intel_hex", input, None) : input \in IntelHexStreams}
               \cup {CodecCall("srec", input, None) : input \in SrecStreams}
    /\ result = Result("new", TRUE, "")
    /\ pc = "parse"
    /\ checksum_bytes = None
    /\ output = None

\* The parser has returned r.
Parsed(r) ==
    /\ segments' = r.segments
    /\ result' = Result("parse", r.ok, r.err)
    /\ pc' = IF r.ok THEN "parsed" ELSE "failed"
    /\ UNCHANGED <<call, checksum_bytes, output>>

ParseIntelHex ==
    /\ pc = "parse"
    /\ call.format = "intel_hex"
    /\ Parsed(parse_intel_hex(call.input))

ParseSrec ==
    /\ pc = "parse"
    /\ call.format = "srec"
    /\ Parsed(parse_srec(call.input))

BytesPerLineChoices == {0, 1, 3, 255}

WriteIntelHex ==
    /\ pc = "parsed"
    /\ call.format = "intel_hex"
    /\ \E options \in {IntelHexWriteOptions(bytes_per_line, mode) :
                          bytes_per_line \in BytesPerLineChoices,
                          mode \in {"Auto", "ExtendedLinear", "ExtendedSegment"}} :
          /\ output' = Some(write_intel_hex(segments, options))
          /\ call' = [call EXCEPT !.options = Some(options)]
          /\ result' = Result("write", TRUE, "")
          /\ pc' = "written"
          /\ UNCHANGED <<segments, checksum_bytes>>

\* write_srec has returned r.
SrecWritten(options, r) ==
    /\ output' = IF r.ok THEN Some(r.lines) ELSE None
    /\ call' = [call EXCEPT !.options = Some(options)]
    /\ result' = Result("write", r.ok, r.err)
    /\ pc' = IF r.ok THEN "written" ELSE "failed"
    /\ UNCHANGED <<segments, checksum_bytes>>

WriteSrec ==
    /\ pc = "parsed"
    /\ call.format = "srec"
    /\ \E options \in {SRecordWriteOptions(bytes_per_line, record_type) :
                          bytes_per_line \in BytesPerLineChoices,
                          record_type \in {None, Some("S1"), Some("S2"), Some("S3")}} :
          SrecWritten(options, write_srec(segments, options))

\* The written stream has been parsed: r.
Reparsed(r) ==
    /\ result' = ResultValue("reparse", r.ok, r.err, r.segments)
    /\ pc' = "reparsed"
    /\ UNCHANGED <<segments, call, checksum_bytes, output>>

\* let parsed = parse_intel_hex(&output) / parse_srec(&out)
ParseWritten ==
    /\ pc = "written"
    /\ Reparsed(IF call.format = "intel_hex" THEN parse_intel_hex(output[1])
                ELSE parse_srec(output[1]))

NextCodec == ParseIntelHex \/ ParseSrec \/ WriteIntelHex \/ WriteSrec \/ ParseWritten

SpecCodec == InitCodec /\ [][NextCodec]_vars

\* ------------------------------------------- a transform and its inverse
\* Segments of two to eight bytes, all different, low and at a third of the
\* address space.
SwapSegmentChoices ==
    {Segment(4, ItemData(1, n)) : n \in {2, 4, 5, 8}}
    \cup {Segment(MaxAddr \div 3, ItemData(2, n)) : n \in {2, 4, 5, 8}}

InverseImages == Images \cup UNION {[1..k -> SwapSegmentChoices] : k \in 1..2}

\* The first call's argument and the image it was made on.
InverseCall(arg, before) == [arg |-> arg, before |-> before]

InitInverse ==
    /\ segments \in InverseImages
    /\ call = <<>>
    /\ result = Result("new", TRUE, "")
    /\ NoPipeline

\* hf.swap_bytes(mode) on the image as it was handed over.
SwapBytes ==
    /\ result.op = "new"
    /\ \E mode \in {"Word", "Long"} :
          /\ segments' = swap_bytes(segments, mode).segments
          /\ call' = InverseCall(mode, segments)
          /\ result' = ResultValue("swap_bytes", TRUE, "", 1)
          /\ UNCHANGED <<pc, checksum_bytes, output>>

\* hf.swap_bytes(mode) again, with the mode of the first call.
SwapBytesAgain ==
    /\ result.op = "swap_bytes"
    /\ result.value = 1
    /\ segments' = swap_bytes(segments, call.arg).segments
    /\ result' = ResultValue("swap_bytes", TRUE, "", 2)
    /\ UNCHANGED <<call, pc, checksum_bytes, output>>

\* hf.scale_addresses(factor) on the image as it was handed over.
ScaleFirst ==
    /\ result.op = "new"
    /\ \E factor \in FactorChoices :
          /\ segments' = scale_addresses(segments, factor).segments
          /\ call' = InverseCall(factor, segments)
          /\ result' = Result("scale_addresses",
                              scale_addresses(segments, factor).ok,
                              scale_addresses(segments, factor).err)
          /\ UNCHANGED <<pc, checksum_bytes, output>>

\* hf.unscale_addresses(factor) after a scale_addresses(factor) that
\* returned Ok.
UnscaleAfterScale ==
    /\ result.op = "scale_addresses"
    /\ result.ok
    /\ segments' = unscale_addresses(segments, call.arg).segments
    /\ result' = Result("unscale_addresses",
                        unscale_addresses(segments, call.arg).ok,
                        unscale_addresses(segments, call.arg).err)
    /\ UNCHANGED <<call, pc, checksum_bytes, output>>

NextInverse == SwapBytes \/ SwapBytesAgain \/ ScaleFirst \/ UnscaleAfterScale

SpecInverse == InitInverse /\ [][NextInverse]_vars

\* ---------------------------------------------------- properties of images
\* The addresses a formula looks at: every address a segment of the image
\* covers, the address before and after each segment, and both ends of the
\* address space.
Probes(segs) ==
    {0, MaxAddr} \cup
    UNION { { a \in (segs[i].start_address - 1)..
                    (segs[i].start_address + Len(segs[i].data)) :
                a >= 0 /\ a <= MaxAddr } : i \in DOMAIN segs }

\* Segment i holds a byte at address a.
Covers(seg, a) ==
    /\ a >= seg.start_address
    /\ a - seg.start_address < Len(seg.data)
    /\ a <= MaxAddr

\* The priority rule, stated on the list: the covering segment with the
\* largest index gives the byte.
PriorityByte(segs, a) ==
    LET cov == {i \in DOMAIN segs : Covers(segs[i], a)}
    IN  IF cov = {} THEN None
        ELSE LET j == CHOOSE i \in cov : \A k \in cov : k <= i
             IN  Some(segs[j].data[a - segs[j].start_address + 1])

\* The bytes the segments of an image hold at a (one per covering segment).
BytesAt(segs, a) ==
    {segs[i].data[a - segs[i].start_address + 1] :
        i \in {k \in DOMAIN segs : Covers(segs[k], a)}}

SortedByStart(segs) ==
    \A i \in 1..(Len(segs) - 1) :
        segs[i].start_address <= segs[i + 1].start_address

\* Consecutive segments of a sorted list do not share an address.
NonOverlapping(segs) ==
    \A i \in 1..(Len(segs) - 1) :
        segs[i].start_address + Len(segs[i].data) - 1 < segs[i + 1].start_address

\* No segment is empty or holds a byte beyond u32::MAX.
WithinU32(segs) ==
    \A i \in DOMAIN segs :
        /\ Len(segs[i].data) > 0
        /\ segs[i].start_address + Len(segs[i].data) - 1 <= MaxAddr

SharesAddress(s, t) ==
    /\ ~is_empty(s) /\ ~is_empty(t)
    /\ Max2(s.start_address, t.start_address)
         <= Min2(Min2(s.start_address + Len(s.data) - 1, MaxAddr),
                 Min2(t.start_address + Len(t.data) - 1, MaxAddr))

SomeOverlap(segs) ==
    \E i, j \in DOMAIN segs : i < j /\ SharesAddress(segs[i], segs[j])

\* C1: in every image built by append_segment, prepend_segment and
\* write_bytes, read_byte(a) is the byte of the covering segment that sits
\* latest in the list, and None when no segment covers a.
C1_ReadBytePriority ==
    \A a \in Probes(segments) :
        read_byte(segments, a) = PriorityByte(segments, a)

\* C1 witness: two segments hold different bytes at one address and read_byte
\* gives the later one's; another address is held by no segment.
C1_Witness ==
    /\ \E i, j \in DOMAIN segments, a \in Probes(segments) :
          /\ i < j /\ Covers(segments[i], a) /\ Covers(segments[j], a)
          /\ \A k \in DOMAIN segments : k > j => ~Covers(segments[k], a)
          /\ segments[i].data[a - segments[i].start_address + 1]
               # segments[j].data[a - segments[j].start_address + 1]
          /\ read_byte(segments, a)
               = Some(segments[j].data[a - segments[j].start_address + 1])
    /\ \E a \in Probes(segments) : read_byte(segments, a) = None

\* C2: normalized_lossy(x) is sorted by start, pairwise non-overlapping,
\* holds no byte beyond u32::MAX, and at every address holds exactly the byte
\* the priority rule gives for x (and none where x has none).
C2_NormalizedLossy ==
    LET n == normalized_lossy(segments)
    IN  /\ SortedByStart(n)
        /\ NonOverlapping(n)
        /\ WithinU32(n)
        /\ \A a \in Probes(segments) \cup Probes(n) :
              BytesAt(n, a) = {b \in BytesAt(segments, a) :
                                  Some(b) = PriorityByte(segments, a)}

\* C2 witness: an unsorted image with three segments on one address and a
\* segment that runs past u32::MAX.
C2_Witness ==
    /\ ~SortedByStart(segments)
    /\ \E a \in Probes(segments) :
          Cardinality({i \in DOMAIN segments : Covers(segments[i], a)}) >= 2
    /\ \E i \in DOMAIN segments :
          segments[i].start_address + Len(segments[i].data) - 1 > MaxAddr
    /\ Len(normalized_lossy(segments)) >= 2

\* C8: normalized_lossy is idempotent.
C8_NormalizedLossyIdempotent ==
    normalized_lossy(normalized_lossy(segments)) = normalized_lossy(segments)

\* C8 witness: an image that normalisation changes (overlapping, unsorted,
\* with contiguous segments to merge).
C8_Witness ==
    /\ SomeOverlap(segments)
    /\ ~SortedByStart(segments)
    /\ normalized_lossy(segments) # segments
    /\ Len(normalized_lossy(segments)) < Len(segments)

\* C9: normalized() fails iff two non-empty segments share an address;
\* otherwise the copy is sorted, non-overlapping, has no two contiguous
\* segments, and holds the same bytes at the same addresses.
C9_NormalizedStrict ==
    LET r == normalized(segments)
    IN  /\ r.ok <=> ~SomeOverlap(segments)
        /\ r.ok =>
             /\ SortedByStart(r.segments)
             /\ NonOverlapping(r.segments)
             /\ \A i \in 1..(Len(r.segments) - 1) :
                   ~is_contiguous_with(r.segments[i], r.segments[i + 1])
             /\ \A a \in Probes(segments) \cup Probes(r.segments) :
                   BytesAt(r.segments, a) = BytesAt(segments, a)

\* C9 witness (success): an unsorted image without overlap whose contiguous
\* segments normalized() merges.
C9_Witness ==
    /\ Len(segments) = MaxSegs
    /\ ~SortedByStart(segments)
    /\ normalized(segments).ok
    /\ Len(normalized(segments).segments) < Len(segments)

\* Longest window read_bytes_contiguous is asked for.
MaxRead == 3

\* C10: read_bytes_contiguous(addr, n) is Some(bytes) iff every address of
\* [addr, addr + n - 1] holds a byte, and then bytes[i] = read_byte(addr + i).
C10_ReadBytesContiguous ==
    \A addr \in Probes(segments), n \in 0..MaxRead :
        LET r == read_bytes_contiguous(segments, addr, n)
            covered == \A i \in 0..(n - 1) :
                          /\ addr + i <= MaxAddr
                          /\ PriorityByte(segments, addr + i) # None
        IN  /\ (r # None) <=> covered
            /\ r # None =>
                 /\ Len(r[1]) = n
                 /\ \A i \in 0..(n - 1) :
                       Some(r[1][i + 1]) = read_byte(segments, addr + i)

\* C4: whenever scale_addresses, unscale_addresses or remap returns an error,
\* the image is exactly what it was before the call.
C4_Transactional ==
    [][(result'.op \in {"scale_addresses", "unscale_addresses", "remap"}
          /\ ~result'.ok) => segments' = segments]_vars

\* ------------------------------------------------- properties of checksum
\* The image without the bytes it holds at lo..hi: the priority bytes of
\* every other address, as sorted segments.
RECURSIVE RemoveWindowFrom(_, _, _)
RemoveWindowFrom(norm, lo, hi) ==
    IF norm = <<>> THEN <<>>
    ELSE LET seg == Head(norm)
             n == Len(seg.data)
             below == IF lo > seg.start_address
                      THEN Min2(lo - seg.start_address, n) ELSE 0
             above == IF hi < seg.start_address + n - 1
                      THEN Min2(seg.start_address + n - 1 - hi, n) ELSE 0
             left == IF below > 0
                     THEN <<Segment(seg.start_address, SubSeq(seg.data, 1, below))>>
                     ELSE <<>>
             right == IF above > 0
                      THEN <<Segment(seg.start_address + n - above,
                                     SubSeq(seg.data, n - above + 1, n))>>
                      ELSE <<>>
         IN  (IF below = n THEN left ELSE left \o right)
               \o RemoveWindowFrom(Tail(norm), lo, hi)

RemoveWindow(segs, lo, hi) == RemoveWindowFrom(normalized_lossy(segs), lo, hi)

\* Where the checksum of len bytes is placed for a library target on the
\* image segs: an integer that may lie outside 0..MaxAddr, None when the
\* target places nothing (File, or an empty image).
WriteAddr(segs, target, len) ==
    IF target.kind = "Address" THEN Some(target.addr)
    ELSE IF target.kind = "Append" /\ max_address(segs) # None
    THEN Some(max_address(segs)[1] + 1)
    ELSE IF target.kind = "Prepend" /\ min_address(segs) # None
    THEN Some(min_address(segs)[1] - len)
    ELSE IF target.kind = "OverwriteEnd" /\ max_address(segs) # None
    THEN Some(max_address(segs)[1] - (len - 1))
    ELSE None

\* C6: when checksum with target Address(a) or OverwriteEnd (Begin included,
\* as Address(min_address)) returns its bytes, they are the checksum, under
\* the same algorithm, range and exclude list, of the image without the bytes
\* it held in the placement window write_addr .. write_addr + len - 1.
C6_TargetExcluded ==
    [][(/\ result'.op = "checksum"
        /\ result'.ok
        /\ call'.lib_target.kind \in {"Address", "OverwriteEnd"}
        /\ call'.options.forced_range = None
        /\ WriteAddr(segments, call'.lib_target, Len(result'.value)) # None)
       => LET len == Len(result'.value)
              write_addr == WriteAddr(segments, call'.lib_target, len)[1]
              reference == calculate_checksum(
                               RemoveWindow(segments, write_addr,
                                            write_addr + len - 1),
                               call'.options)
          IN  reference.ok /\ reference.data = result'.value]_vars

\* C7: checksum with target Append places its bytes at max_address + 1, with
\* Prepend at min_address - len, with OverwriteEnd at max_address - (len - 1);
\* when that placement does not lie in the address space the call returns
\* AddressOverflow and writes nothing.
C7_PlacementOrOverflow ==
    [][(/\ result'.op = "checksum"
        /\ call'.lib_target.kind \in {"Append", "Prepend", "OverwriteEnd"}
        /\ segments # <<>>)
       => LET len == result_size(call'.options.algorithm)
              write_addr == WriteAddr(segments, call'.lib_target, len)[1]
          IN  IF write_addr < 0 \/ write_addr + len - 1 > MaxAddr
              THEN /\ ~result'.ok
                   /\ result'.err = "AddressOverflow"
                   /\ segments' = segments
              ELSE result'.ok =>
                     segments' = write_bytes(segments, write_addr, result'.value)]_vars


\* -------------------------------------------------- properties of execute
\* The order of section 4.2: preset address mapping (/S12MAP, /S12XMAP,
\* /S08MAP), remap, fill ranges, cut ranges, transparent merges, opaque
\* merges, address-range filter, log commands, fill all gaps, alignment,
\* split, swap word then swap long, checksum.
SpecifiedOrder ==
    <<"map_star12", "map_star12x", "map_star08", "remap", "fill_ranges",
      "cut_ranges", "merge_transparent", "merge_opaque", "address_ranges",
      "log_commands", "fill_all", "align", "split", "swap_word", "swap_long",
      "checksum">>

\* A stage applied to what the stages before it left; the bytes of a
\* checksum stay once computed.
AfterStage(st, r) ==
    [r EXCEPT !.checksum_bytes = IF r.ok /\ r.checksum_bytes # None
                                 THEN r.checksum_bytes ELSE st.checksum_bytes]

\* The stages of a list applied one after the other, each to the image the
\* one before left, up to the first that fails.
RECURSIVE RunInOrder(_, _, _, _)
RunInOrder(stages, st, p, env) ==
    IF stages = <<>> \/ ~st.ok THEN st
    ELSE CHOOSE out \in
            {RunInOrder(Tail(stages), next, p, env) :
                next \in {AfterStage(st, RunStage(Head(stages), st.segments,
                                                  p, env))}} : TRUE

Specified(stages) ==
    RunInOrder(stages, StageDone(Ok(call.pipeline.hexfile)), call.pipeline, call)

StagesBefore(stage) ==
    SubSeq(SpecifiedOrder, 1,
           (CHOOSE i \in DOMAIN SpecifiedOrder : SpecifiedOrder[i] = stage) - 1)

\* What execute holds or has returned is what the stages leave ...
MatchesSpecified(expected) ==
    IF pc = "return"
    THEN expected.ok /\ segments = expected.segments
           /\ checksum_bytes = expected.checksum_bytes
    ELSE IF pc = "failed"
    THEN ~expected.ok /\ ~result.ok /\ result.err = expected.err
    ELSE IF pc \in {"returned", "written"}
    THEN expected.ok /\ result.ok
           /\ result.value = PipelineResult(expected.segments,
                                            expected.checksum_bytes)
    ELSE expected.ok /\ segments = expected.segments

\* C3: execute applies the stages in the order of section 4.2, a stage whose
\* input is absent changing nothing: at every stage the image at hand is the
\* one the stages before it, applied in that order each to the complete
\* result of the one before, have left, and what execute returns is what all
\* of them have left (or the error of the first that fails).
C3_StageOrder ==
    pc \notin {"idle", "execute"} =>
        MatchesSpecified(
            Specified(IF pc \in {"return", "returned", "written", "failed"}
                      THEN SpecifiedOrder ELSE StagesBefore(pc)))

\* Fill (with the caller's generator) and cut, which do not commute, and a
\* later stage were all set, all acted, and the image was returned.
C3_Witness ==
    /\ pc = "returned"
    /\ result.ok
    /\ call.pipeline.fill_ranges # <<>>
    /\ call.pipeline.fill_pattern = None
    /\ call.pipeline.cut_ranges # <<>>
    /\ call.pipeline.swap_word
    /\ result.value.hexfile # call.pipeline.hexfile
    /\ result.value.hexfile #
         RunInOrder(<<"cut_ranges", "fill_ranges", "swap_word">>,
                    StageDone(Ok(call.pipeline.hexfile)),
                    call.pipeline, call).segments

\* C5: an error of a stage ends the pipeline: execute has returned that
\* error and nothing else, no further step of the pipeline or of the command
\* line can be taken, and no image was written out.
C5_ErrorAborts ==
    (result.op = "execute" /\ ~result.ok) =>
        /\ pc = "failed"
        /\ result.value = None
        /\ segments = <<>>
        /\ output = None
        /\ ~ENABLED NextPipeline

\* The alignment was rejected after an earlier stage had changed the image
\* and with later stages still to come.
C5_Witness ==
    /\ pc = "failed"
    /\ ~result.ok
    /\ result.err = "InvalidAlignment"
    /\ call.pipeline.cut_ranges # <<>>
    /\ call.pipeline.swap_word
    /\ output = None


\* ------------------------------------------- properties of the operations
\* Every byte the image held before the call is read at its address.
BytesKept(before, after) ==
    \A a \in Probes(before) :
        read_byte(before, a) # None => read_byte(after, a) = read_byte(before, a)

\* C11: after align({k, f, true}) with k # 0 the call has returned Ok, every
\* segment starts at a multiple of k and has a length that is a multiple of
\* k, and every byte of the image before the call is read at its address.
C11_AlignStartAndLength ==
    (result.op = "align" /\ call.args.options.alignment # 0
        /\ call.args.options.align_length) =>
        /\ result.ok
        /\ \A i \in DOMAIN segments :
              /\ segments[i].start_address % call.args.options.alignment = 0
              /\ Len(segments[i].data) % call.args.options.alignment = 0
        /\ BytesKept(call.before, segments)


\* The bytes of a segment at the addresses of a range, as a segment (empty
\* when they share no address).
SliceIn(seg, range) ==
    Segment(Max2(seg.start_address, range.start),
            SubSeq(seg.data,
                   Max2(seg.start_address, range.start) - seg.start_address + 1,
                   Min2(seg.start_address + Len(seg.data) - 1, range.end)
                       - seg.start_address + 1))

\* A start address moved by a signed offset, saturating at 0 and u32::MAX.
SaturatedStart(start, offset) ==
    IF start + offset < 0 THEN 0
    ELSE IF start + offset > MaxAddr THEN MaxAddr
    ELSE start + offset

\* other as section 4.5 merges it: filtered to the range if one is set, the
\* segments then moved by the offset.
OtherMerged(other, options) ==
    [i \in DOMAIN other |->
        [(IF options.range = None THEN other[i]
          ELSE SliceIn(other[i], options.range[1]))
         EXCEPT !.start_address = SaturatedStart(@, options.offset)]]

MergedAddresses(before, other, after) ==
    Probes(before) \cup Probes(other) \cup Probes(after)

\* C12: after merge(other, {mode, offset, range}), in Overwrite mode every
\* address other (filtered and moved) covers reads other's byte and every
\* other address reads as before; in Preserve mode every address the image
\* covered reads as before and any other address reads a byte of other at
\* that address, or nothing where other has none.
C12_MergeModes ==
    result.op = "merge" =>
        \A a \in MergedAddresses(call.before,
                                 OtherMerged(call.args.other, call.args.options),
                                 segments) :
            IF call.args.options.mode = "Overwrite"
            THEN read_byte(segments, a) =
                    IF PriorityByte(OtherMerged(call.args.other,
                                                call.args.options), a) # None
                    THEN PriorityByte(OtherMerged(call.args.other,
                                                  call.args.options), a)
                    ELSE PriorityByte(call.before, a)
            ELSE IF PriorityByte(call.before, a) # None
            THEN read_byte(segments, a) = PriorityByte(call.before, a)
            ELSE IF BytesAt(OtherMerged(call.args.other, call.args.options), a) = {}
            THEN read_byte(segments, a) = None
            ELSE /\ read_byte(segments, a) # None
                 /\ read_byte(segments, a)[1]
                        \in BytesAt(OtherMerged(call.args.other,
                                                call.args.options), a)


InRange(a, range) == a >= range.start /\ a <= range.end

\* The addresses a formula about a range looks at.
RangeProbes(range) == range.start..range.end

\* pattern[(a - range.start) mod len(pattern)]
Tiled(range, pattern, a) == pattern[((a - range.start) % Len(pattern)) + 1]

\* C13: after fill(range, {pattern, overwrite}) with a non-empty pattern an
\* address of range reads the byte it held if overwrite is false and it held
\* one, and the tiled pattern otherwise; an address outside range reads as
\* before.
C13_Fill ==
    (result.op = "fill" /\ call.args.options.pattern # <<>>) =>
        \A a \in Probes(call.before) \cup Probes(segments)
                   \cup RangeProbes(call.args.range) :
            read_byte(segments, a) =
                IF ~InRange(a, call.args.range) THEN PriorityByte(call.before, a)
                ELSE IF ~call.args.options.overwrite
                          /\ PriorityByte(call.before, a) # None
                THEN PriorityByte(call.before, a)
                ELSE Some(Tiled(call.args.range, call.args.options.pattern, a))

\* A fill without overwrite of a range of which the image held one address
\* and not another, with a pattern shorter than the range.
C13_Witness ==
    /\ result.op = "fill"
    /\ ~call.args.options.overwrite
    /\ Len(call.args.options.pattern) = 2
    /\ length(call.args.range) > 2
    /\ \E a, b \in RangeProbes(call.args.range) :
          /\ PriorityByte(call.before, a) # None
          /\ read_byte(segments, a) = PriorityByte(call.before, a)
          /\ PriorityByte(call.before, b) = None
          /\ read_byte(segments, b) # None

\* C14: after cut(r) then fill(r, pattern, overwrite = false) every address
\* of r that held no byte before the fill reads the tiled pattern (after the
\* cut that is every address of r), and every address that held a byte
\* before the fill reads that byte.
C14_CutThenFill ==
    result.op = "cut_fill" =>
        /\ \A a \in RangeProbes(call.args.range) :
              /\ read_byte(call.before, a) = None
              /\ read_byte(segments, a) =
                    Some(Tiled(call.args.range, call.args.options.pattern, a))
        /\ \A a \in Probes(call.cut_before) \cup Probes(call.before)
                     \cup Probes(segments) :
              read_byte(call.before, a) # None =>
                  read_byte(segments, a) = read_byte(call.before, a)

\* The cut removed a byte of r, a byte outside r was held, and the pattern
\* is shorter than r.
C14_Witness ==
    /\ result.op = "cut_fill"
    /\ Len(call.args.options.pattern) = 2
    /\ length(call.args.range) > 2
    /\ \E a \in RangeProbes(call.args.range) :
          /\ read_byte(call.cut_before, a) # None
          /\ read_byte(segments, a) # read_byte(call.cut_before, a)
    /\ \E a \in Probes(call.before) :
          /\ ~InRange(a, call.args.range)
          /\ read_byte(call.before, a) # None

\* The ranges of a list cut one after the other.
RECURSIVE CutInSequence(_, _)
CutInSequence(segs, ranges) ==
    IF ranges = <<>> THEN segs
    ELSE CutInSequence(cut(segs, Head(ranges)), Tail(ranges))

\* The segments of an image that hold an address on both sides of a range.
Straddling(segs, range) ==
    {i \in DOMAIN segs :
        /\ segs[i].start_address < range.start
        /\ end_address(segs[i]) > range.end}

\* C15: after cut(range) no address of range holds a byte and every address
\* outside it reads as before, a segment straddling the range leaving its
\* prefix before range.start and its suffix after range.end; cut_ranges(rs)
\* leaves what cutting each range of rs in sequence leaves.
C15_Cut ==
    /\ result.op = "cut" =>
          /\ \A a \in RangeProbes(call.args.range) : read_byte(segments, a) = None
          /\ \A a \in Probes(call.before) \cup Probes(segments) :
                ~InRange(a, call.args.range) =>
                    read_byte(segments, a) = PriorityByte(call.before, a)
          /\ \A i \in Straddling(call.before, call.args.range) :
                /\ \E j \in DOMAIN segments :
                      segments[j] =
                          Segment(call.before[i].start_address,
                                  SubSeq(call.before[i].data, 1,
                                         call.args.range.start
                                             - call.before[i].start_address))
                /\ \E j \in DOMAIN segments :
                      segments[j] =
                          Segment(call.args.range.end + 1,
                                  SubSeq(call.before[i].data,
                                         call.args.range.end
                                             - call.before[i].start_address + 2,
                                         Len(call.before[i].data)))
    /\ result.op = "cut_ranges" =>
          segments = CutInSequence(call.before, call.args.ranges)

\* A cut of a range a segment straddles, and a cut of two ranges that both
\* removed a byte.
C15_Witness ==
    \/ /\ result.op = "cut"
       /\ Straddling(call.before, call.args.range) # {}
    \/ /\ result.op = "cut_ranges"
       /\ Len(call.args.ranges) = 2
       /\ cut(call.before, call.args.ranges[1]) # call.before
       /\ segments # cut(call.before, call.args.ranges[1])

InSomeRange(a, ranges) == \E i \in DOMAIN ranges : InRange(a, ranges[i])

\* C16: after filter_ranges(rs) with rs non-empty an address reads what it
\* read before if it lies in a range of rs and nothing otherwise; with rs
\* empty the image is empty.
C16_FilterRanges ==
    result.op = "filter_ranges" =>
        IF call.args.ranges = <<>> THEN segments = <<>>
        ELSE \A a \in Probes(call.before) \cup Probes(segments)
                        \cup UNION {RangeProbes(call.args.ranges[i]) :
                                       i \in DOMAIN call.args.ranges} :
                read_byte(segments, a) =
                    IF InSomeRange(a, call.args.ranges)
                    THEN PriorityByte(call.before, a)
                    ELSE None

\* Two ranges kept an address that two segments held with different bytes,
\* and dropped another one that was held.
C16_Witness ==
    /\ result.op = "filter_ranges"
    /\ Len(call.args.ranges) = 2
    /\ \E a \in Probes(call.before) :
          /\ InSomeRange(a, call.args.ranges)
          /\ Cardinality(BytesAt(call.before, a)) > 1
          /\ read_byte(segments, a) = PriorityByte(call.before, a)
    /\ \E a \in Probes(call.before) :
          /\ ~InSomeRange(a, call.args.ranges)
          /\ PriorityByte(call.before, a) # None
          /\ read_byte(segments, a) = None

\* The addresses at which the segments of an image hold a byte.
HeldAddresses(segs) ==
    UNION {segs[i].start_address..(segs[i].start_address + Len(segs[i].data) - 1) :
              i \in DOMAIN segs}

\* The bytes the segments hold at an address, in the order of the segments.
RECURSIVE ByteSeqAt(_, _)
ByteSeqAt(segs, a) ==
    IF segs = <<>> THEN <<>>
    ELSE (IF a >= Head(segs).start_address
             /\ a < Head(segs).start_address + Len(Head(segs).data)
          THEN <<Head(segs).data[a - Head(segs).start_address + 1]>>
          ELSE <<>>)
         \o ByteSeqAt(Tail(segs), a)

\* The bytes of two images, taken in address order, are the same.
SameBytesInAddressOrder(before, after) ==
    /\ HeldAddresses(before) = HeldAddresses(after)
    /\ \A a \in HeldAddresses(before) : ByteSeqAt(before, a) = ByteSeqAt(after, a)

\* Contiguous chunks of n bytes and a shorter remainder, each at the address
\* of its first byte.
Chunks(seg, n) ==
    [k \in 1..((Len(seg.data) + n - 1) \div n) |->
        Segment(seg.start_address + (k - 1) * n,
                SubSeq(seg.data, (k - 1) * n + 1, Min2(k * n, Len(seg.data))))]

RECURSIVE ChunksOfEach(_, _)
ChunksOfEach(segs, n) ==
    IF segs = <<>> THEN <<>>
    ELSE Chunks(Head(segs), n) \o ChunksOfEach(Tail(segs), n)

\* C17: after split(n) with n > 0 the call has returned, every segment has
\* at most n bytes, the bytes in address order are those before the call,
\* and each segment has become its chunks of n bytes and a shorter
\* remainder; split(0) changes nothing.
C17_Split ==
    result.op = "split" =>
        /\ result.ok
        /\ IF call.args.max_size = 0 THEN segments = call.before
           ELSE /\ \A i \in DOMAIN segments :
                      Len(segments[i].data) <= call.args.max_size
                /\ SameBytesInAddressOrder(call.before, segments)
                /\ segments = ChunksOfEach(call.before, call.args.max_size)

\* One entry of a list stage applied to an image.
EntryApplied(stage, segs, entry, files) ==
    IF stage = "merge_transparent"
    THEN Ok(merge(segs, entry.other,
                  MergeOptions("Preserve", entry.offset, entry.range)))
    ELSE IF stage = "merge_opaque"
    THEN Ok(merge(segs, entry.other,
                  MergeOptions("Overwrite", entry.offset, entry.range)))
    ELSE IF stage = "log_commands"
    THEN (IF entry.kind = "FileNew" THEN Ok(<<>>)
          ELSE IF entry.path \in DOMAIN files THEN Ok(files[entry.path])
          ELSE LoadError(entry.line, segs))
    ELSE ChecksumMultiApply(segs, entry)

\* The entries of a list applied one by one in list order, each to the image
\* the one before left, up to the first that fails.
RECURSIVE AppliedInListOrder(_, _, _, _)
AppliedInListOrder(stage, segs, entries, files) ==
    IF entries = <<>> THEN Ok(segs)
    ELSE CHOOSE out \in
            {IF r.ok
             THEN AppliedInListOrder(stage, r.segments, Tail(entries), files)
             ELSE r :
                r \in {EntryApplied(stage, segs, Head(entries), files)}} : TRUE

Reversed(s) == [i \in 1..Len(s) |-> s[Len(s) + 1 - i]]

\* C18: in a stage that takes a list the entries are applied one by one in
\* list order to the same image: after k entries the image is what the first
\* k entries, each applied to what the one before left, have left of the
\* image the stage began with, and the stage has failed exactly if one of
\* them has.
C18_ListOrder ==
    (pc = "entries" /\ result.op = "list") =>
        /\ result.ok =
             AppliedInListOrder(call.stage, call.before,
                                SubSeq(call.entries, 1, result.value),
                                call.log_files).ok
        /\ result.ok =>
             segments =
                 AppliedInListOrder(call.stage, call.before,
                                    SubSeq(call.entries, 1, result.value),
                                    call.log_files).segments

\* Both entries of a list of two were applied and the other order would have
\* left another image.
C18_Witness ==
    /\ pc = "entries"
    /\ result.ok
    /\ call.stage = "merge_transparent"
    /\ result.value = 2
    /\ Len(call.entries) = 2
    /\ segments # call.before
    /\ segments # AppliedInListOrder(call.stage, call.before,
                                     Reversed(call.entries),
                                     call.log_files).segments

\* Two images hold the same bytes at the same addresses.
SameImage(a, b) ==
    \A addr \in Probes(a) \cup Probes(b) : PriorityByte(a, addr) = PriorityByte(b, addr)

\* C19: for a valid Intel-HEX or S-Record stream b and every option set of
\* the writer, write(parse(b)) is written (S-Record: unless the record type
\* set cannot hold the image's last address) and parses back to the image
\* parse(b), addresses and data.
C19_RoundTrip ==
    /\ (result.op = "write" /\ ~result.ok) =>
          /\ call.format = "srec"
          /\ call.options[1].record_type # None
          /\ max_address(segments) # None
          /\ max_address(segments)[1] >
                 max_address_for(call.options[1].record_type[1])
    /\ pc = "reparsed" =>
          /\ result.ok
          /\ SameImage(result.value, segments)

\* The records of a written Intel-HEX stream, as bytes.
RecordsOf(lines) == [i \in DOMAIN lines |-> parse_hex_bytes(lines[i].hex)[1]]

\* bytes_per_line, a bytes_per_line of 0 meaning zero_limit.
LineLimit(bytes_per_line, zero_limit) ==
    IF bytes_per_line = 0 THEN zero_limit ELSE bytes_per_line

\* Every data record of the written stream carries at most limit bytes, and
\* its bytes lie in one 64 KiB bank.
DataRecordsWithin(lines, limit) ==
    \A i \in DOMAIN lines :
        RecordsOf(lines)[i][4] = 0 =>
            /\ RecordsOf(lines)[i][1] <= limit
            /\ RecordsOf(lines)[i][2] * 256 + RecordsOf(lines)[i][3]
                 + RecordsOf(lines)[i][1] <= 65536

\* C20 as stated: every data record write_intel_hex emits carries at most
\* bytes_per_line bytes and lies in one 64 KiB bank, a bytes_per_line of 0
\* meaning 32: the stream written for 0 is the one written for 32.
C20_ZeroMeans32 ==
    (result.op = "write" /\ call.format = "intel_hex" /\ output # None) =>
        /\ DataRecordsWithin(output[1],
                             LineLimit(call.options[1].bytes_per_line, 32))
        /\ call.options[1].bytes_per_line = 0 =>
              output[1] = write_intel_hex(segments,
                              IntelHexWriteOptions(32, call.options[1].mode))

\* C20, amended: every data record write_intel_hex emits carries at most
\* bytes_per_line bytes and lies in one 64 KiB bank, a bytes_per_line of 0
\* meaning 16: the stream written for 0 is the one written for 16.
C20_RecordLength ==
    (result.op = "write" /\ call.format = "intel_hex" /\ output # None) =>
        /\ DataRecordsWithin(output[1],
                             LineLimit(call.options[1].bytes_per_line, 16))
        /\ call.options[1].bytes_per_line = 0 =>
              output[1] = write_intel_hex(segments,
                              IntelHexWriteOptions(16, call.options[1].mode))

\* A segment of more than 32 bytes that crosses a 64 KiB boundary was
\* written with a bytes_per_line of 0.
C20_Witness ==
    /\ result.op = "write"
    /\ call.format = "intel_hex"
    /\ output # None
    /\ call.options # None
    /\ call.options[1].bytes_per_line = 0
    /\ \E i \in DOMAIN segments :
          /\ Len(segments[i].data) > 32
          /\ segments[i].start_address \div 65536
               # end_address(segments[i]) \div 65536
    /\ \E i \in DOMAIN output[1] :
          /\ RecordsOf(output[1])[i][4] = 0
          /\ RecordsOf(output[1])[i][1] = 16

\* ------------------------------------------------ properties of transforms
\* The bank a segment starts in, and where the rule of remap puts it.
BankIndex(seg, options) == (seg.start_address - options.start) \div options.inc
BankBase(seg, options) == options.start + BankIndex(seg, options) * options.inc

\* The segment lies fully inside [start, end] and inside its bank window.
InsideRemapRange(seg, options) ==
    /\ seg.start_address >= options.start
    /\ seg.start_address + Len(seg.data) - 1 <= options.end

InsideBankWindow(seg, options) ==
    seg.start_address + Len(seg.data) - 1
        <= BankBase(seg, options) + options.size - 1

RemappedStart(seg, options) ==
    IF InsideRemapRange(seg, options) /\ InsideBankWindow(seg, options)
    THEN options.linear + BankIndex(seg, options) * options.size
           + (seg.start_address - BankBase(seg, options))
    ELSE seg.start_address

\* C21: a remap that returns Ok has moved every segment fully inside
\* [start, end] and inside its bank window to linear + bank_index * size +
\* (seg.start - bank_base) and left every other segment at its address; no
\* remap, returning Ok or not, changes the data or the number of segments.
C21_Remap ==
    [][result'.op = "remap" =>
          /\ Len(segments') = Len(segments)
          /\ \A i \in DOMAIN segments : segments'[i].data = segments[i].data
          /\ result'.ok =>
                \A i \in DOMAIN segments :
                    segments'[i].start_address = RemappedStart(segments[i], call')]_vars

\* The rule of remap with the end of a segment taken as end_address gives
\* it: the start for an empty segment, the last address for a segment whose
\* data run past it.
RemappedStartByEndAddress(seg, options) ==
    IF /\ seg.start_address >= options.start
       /\ end_address(seg) <= options.end
       /\ end_address(seg) <= BankBase(seg, options) + options.size - 1
    THEN options.linear + BankIndex(seg, options) * options.size
           + (seg.start_address - BankBase(seg, options))
    ELSE seg.start_address

C21_RemapByEndAddress ==
    [][(result'.op = "remap" /\ result'.ok) =>
          \A i \in DOMAIN segments :
              segments'[i].start_address
                  = RemappedStartByEndAddress(segments[i], call')]_vars

\* A segment whose data run past the last address was moved by a remap.
C21_MovedPastLastAddress ==
    /\ result.op = "remap"
    /\ result.ok
    /\ \E i \in DOMAIN segments :
          /\ segments[i].data # DataFor(segments[i].start_address, Len(segments[i].data))
          /\ segments[i].data = DataFor(MaxAddr, 2)

\* remap returned Ok on an image of which it moved one segment to another
\* address, and left one that crosses the end of its bank window and one
\* that lies below start (the data of a segment tell the address it was
\* created at).
C21_Witness ==
    /\ result.op = "remap"
    /\ result.ok
    /\ \E i \in DOMAIN segments :
          segments[i].data # DataFor(segments[i].start_address, Len(segments[i].data))
    /\ \E i \in DOMAIN segments :
          /\ segments[i].data = DataFor(segments[i].start_address, Len(segments[i].data))
          /\ InsideRemapRange(segments[i], call)
          /\ ~InsideBankWindow(segments[i], call)
    /\ \E i \in DOMAIN segments : segments[i].start_address < call.start

\* ------------------------------------------------- properties of requests
\* The address mappings a request asks for.
MappingFlags(args) ==
    {flag \in {"s12_map", "s12x_map", "s08_map"} : args[flag]}
    \cup (IF args.remap # None THEN {"remap"} ELSE {})

\* The request combines /MT with /MO, or two address mappings.
Conflicting(args) ==
    \/ args.merge_transparent # <<>> /\ args.merge_opaque # <<>>
    \/ Cardinality(MappingFlags(args)) > 1

\* C22: a request that combines /MT with /MO, or two of the mapping flags,
\* never gets past validation: no pipeline is built for it, no stage runs
\* on an image, nothing is written, and the validation returns Unsupported.
C22_ConflictsRejected ==
    Conflicting(call.args) =>
        /\ pc \in {"validate", "rejected"}
        /\ call.pipeline = None
        /\ segments = <<>>
        /\ output = None
        /\ pc = "rejected" => (~result.ok /\ result.err = "Unsupported")

\* A request with /MT and /MO, at most one address mapping and no /PB was
\* rejected.
C22_Witness ==
    /\ pc = "rejected"
    /\ call.args.postbuild = None
    /\ Cardinality(MappingFlags(call.args)) <= 1
    /\ call.args.merge_transparent # <<>>
    /\ call.args.merge_opaque # <<>>

\* ------------------------------------------------ properties of log lists
\* The first command of a log the loader fails on: 0 if there is none.
FirstFailing(commands, files) ==
    IF \E i \in DOMAIN commands :
          commands[i].kind = "FileOpen" /\ commands[i].path \notin DOMAIN files
    THEN CHOOSE i \in DOMAIN commands :
            /\ commands[i].kind = "FileOpen" /\ commands[i].path \notin DOMAIN files
            /\ \A j \in 1..(i - 1) :
                  commands[j].kind # "FileOpen" \/ commands[j].path \in DOMAIN files
    ELSE 0

\* What the last command of a log leaves: the image it began with if the log
\* is empty, the loaded image after a FileOpen, the empty image after a
\* FileClose or FileNew.
AfterLast(commands, before, files) ==
    IF commands = <<>> THEN before
    ELSE IF commands[Len(commands)].kind = "FileOpen"
    THEN files[commands[Len(commands)].path]
    ELSE <<>>

\* C23: execute_log_commands returns Ok exactly when the loader fails on no
\* command, and then the image is what the last command alone leaves (the
\* image before for an empty list); when the loader fails, the error is Load
\* with the line of the first failing command, and no later command has
\* acted: the image is what the commands before it left.
C23_LogCommands ==
    result.op = "execute_log_commands" =>
        /\ result.ok <=> FirstFailing(call.commands, call.log_files) = 0
        /\ result.ok => segments = AfterLast(call.commands, call.before, call.log_files)
        /\ ~result.ok =>
              /\ result.err = "Load"
              /\ result.value =
                    Some(call.commands[FirstFailing(call.commands, call.log_files)].line)
              /\ segments =
                    AfterLast(SubSeq(call.commands, 1,
                                     FirstFailing(call.commands, call.log_files) - 1),
                              call.before, call.log_files)

\* A log of three commands on an image that held bytes: two FileOpen of
\* different files and then either a FileClose, or a FileOpen that fails on
\* a line that is not its position in the list.
C23_Witness ==
    /\ result.op = "execute_log_commands"
    /\ call.before # <<>>
    /\ Len(call.commands) = 3
    /\ call.commands[1].kind = "FileOpen"
    /\ call.commands[2].kind = "FileOpen"
    /\ call.commands[1].path # call.commands[2].path
    /\ \/ result.ok /\ call.commands[3].kind = "FileClose"
       \/ ~result.ok /\ result.value = Some(4) /\ segments # <<>>
             /\ segments # call.before

\* --------------------------------------------- properties of the payload
\* The range a calculation covers: the one given, else the forced range,
\* else the first to the last address of the image; None for no address.
RangeCovered(segs, options) ==
    IF options.range # None THEN options.range
    ELSE IF options.forced_range # None THEN Some(options.forced_range[1].range)
    ELSE IF \A i \in DOMAIN segs : is_empty(segs[i]) THEN None
    ELSE Some(Range(min_address(segs)[1], max_address(segs)[1]))

\* Address a is excluded from a calculation.
Excluded(options, a) ==
    \/ \E i \in DOMAIN options.exclude_ranges : InRange(a, options.exclude_ranges[i])
    \/ options.target_exclude # None /\ InRange(a, options.target_exclude[1])

\* Address a is one of the included sub-ranges.
Included(segs, options, a) ==
    /\ a >= 0
    /\ a <= MaxAddr
    /\ RangeCovered(segs, options) # None
    /\ InRange(a, RangeCovered(segs, options)[1])
    /\ ~Excluded(options, a)

\* A byte is emitted into the payload for address a: with a forced range
\* every included address gives one, else those the image holds a byte at.
Emitted(segs, options, a) ==
    /\ Included(segs, options, a)
    /\ options.forced_range # None \/ \E i \in DOMAIN segs : Covers(segs[i], a)

\* The addresses next to which a run of the payload can begin or end.
Boundaries(segs, options) ==
    {0, MaxAddr}
    \cup {segs[i].start_address : i \in DOMAIN segs}
    \cup {segs[i].start_address + Len(segs[i].data) - 1 : i \in DOMAIN segs}
    \cup {options.exclude_ranges[i].start : i \in DOMAIN options.exclude_ranges}
    \cup {options.exclude_ranges[i].end : i \in DOMAIN options.exclude_ranges}
    \cup (IF options.range # None
          THEN {options.range[1].start, options.range[1].end} ELSE {})
    \cup (IF options.forced_range # None
          THEN {options.forced_range[1].range.start, options.forced_range[1].range.end}
          ELSE {})
    \cup (IF options.target_exclude # None
          THEN {options.target_exclude[1].start, options.target_exclude[1].end}
          ELSE {})

RunProbes(segs, options) ==
    {a \in UNION {{b - 1, b, b + 1} : b \in Boundaries(segs, options)} :
        a >= 0 /\ a <= MaxAddr}

\* The first and the last addresses of the maximal runs of emitted bytes.
RunStarts(segs, options) ==
    {a \in RunProbes(segs, options) :
        Emitted(segs, options, a) /\ ~Emitted(segs, options, a - 1)}

RunEnds(segs, options) ==
    {a \in RunProbes(segs, options) :
        Emitted(segs, options, a) /\ ~Emitted(segs, options, a + 1)}

\* C24: a word-sum calculation that succeeds has emitted only runs that
\* start on an even address and have even length (they end on an odd one);
\* a calculation with a run that starts odd or has odd length returns an
\* error.
C24_WordRuns ==
    (result.op = "calculate_checksum" /\ call.algorithm \in WordSumAlgorithms
       /\ result.ok) =>
        /\ \A a \in RunStarts(segments, call) : a % 2 = 0
        /\ \A a \in RunEnds(segments, call) : a % 2 = 1

\* A word sum over two runs that an exclude range parts has succeeded.
C24_Witness ==
    /\ result.op = "calculate_checksum"
    /\ call.algorithm \in WordSumAlgorithms
    /\ call.exclude_ranges # <<>>
    /\ Cardinality(RunStarts(segments, call)) = 2
    /\ result.ok

\* ----------------------------------- properties of a transform and its inverse
\* C25: after swap_bytes(mode) twice an image whose segments all have a
\* length that is a multiple of the swap size (2 for Word, 4 for Long) is
\* the image before the first call.
C25_SwapTwice ==
    (result.op = "swap_bytes" /\ result.value = 2
       /\ \A i \in DOMAIN call.before :
             Len(call.before[i].data) % SwapSize(call.arg) = 0) =>
        segments = call.before

\* Two swaps of an image with a segment of two complete chunks, which one
\* swap changes.
C25_Witness ==
    /\ result.op = "swap_bytes"
    /\ result.value = 2
    /\ \A i \in DOMAIN call.before :
          Len(call.before[i].data) % SwapSize(call.arg) = 0
    /\ \E i \in DOMAIN call.before :
          Len(call.before[i].data) = 2 * SwapSize(call.arg)
    /\ swap_bytes(call.before, call.arg).segments # call.before

\* C26: for factor # 0 and an image scale_addresses(factor) accepted,
\* unscale_addresses(factor) returns Ok and leaves the image as it was
\* before the scale: the segments in their order, with their start
\* addresses and data.
C26_ScaleUnscale ==
    (result.op = "unscale_addresses" /\ call.arg # 0) =>
        /\ result.ok
        /\ segments = call.before

\* A scale by 3 moved a segment to the last address and a segment of the
\* image lay elsewhere; the unscale has returned.
C26_Witness ==
    /\ result.op = "unscale_addresses"
    /\ call.arg = 3
    /\ Len(call.before) = 2
    /\ call.before[1].start_address # call.before[2].start_address
    /\ \E i \in DOMAIN call.before :
          call.before[i].start_address * 3 > MaxAddr - 3

\* The extended base in force at line i of an Intel-HEX stream: that of the
\* last extended address record before it, 0 if there is none.
BaseAt(lines, i) ==
    LET before == {j \in 1..(i - 1) : RecordsOf(lines)[j][4] \in {2, 4}}
    IN  IF before = {} THEN 0
        ELSE LET j == CHOOSE k \in before : \A m \in before : m <= k
                 rec == RecordsOf(lines)[j]
             IN  (rec[5] * 256 + rec[6]) * (IF rec[4] = 2 THEN 16 ELSE 65536)

\* The data records of a stream in file order, each as a segment at its
\* absolute address.
DataRecordsOf(lines) ==
    LET at == {i \in DOMAIN lines : RecordsOf(lines)[i][4] = 0}
        nth(k) == CHOOSE i \in at : Cardinality({j \in at : j < i}) = k - 1
    IN  [k \in 1..Cardinality(at) |->
            Segment(BaseAt(lines, nth(k))
                      + RecordsOf(lines)[nth(k)][2] * 256 + RecordsOf(lines)[nth(k)][3],
                    SubSeq(RecordsOf(lines)[nth(k)], 5, 4 + RecordsOf(lines)[nth(k)][1]))]

\* One segment for every maximal run of records each of which starts right
\* after the end of the one before it.
RECURSIVE MaximalRuns(_)
MaximalRuns(records) ==
    IF Len(records) <= 1 THEN records
    ELSE LET rest == MaximalRuns(Tail(records))
         IN  IF records[1].start_address + Len(records[1].data) = rest[1].start_address
             THEN <<Segment(records[1].start_address, records[1].data \o rest[1].data)>>
                  \o Tail(rest)
             ELSE <<records[1]>> \o rest

\* C27: parse_intel_hex yields exactly one segment for every maximal run of
\* data records whose absolute addresses are consecutive in file order.
C27_Coalesce ==
    (result.op = "parse" /\ result.ok /\ call.format = "intel_hex") =>
        segments = MaximalRuns(DataRecordsOf(call.input))

\* The same with a run closed at every extended address record too: the
\* records between two extended address records coalesce as stated.
RunsBetweenExtended(lines) ==
    LET at == {i \in DOMAIN lines : RecordsOf(lines)[i][4] = 0}
        nth(k) == CHOOSE i \in at : Cardinality({j \in at : j < i}) = k - 1
        recs == DataRecordsOf(lines)
        splits == {k \in 2..Len(recs) :
                      \/ recs[k - 1].start_address + Len(recs[k - 1].data)
                            # recs[k].start_address
                      \/ \E j \in (nth(k - 1) + 1)..(nth(k) - 1) :
                            RecordsOf(lines)[j][4] \in {2, 4}}
    IN  Cardinality(splits) + (IF recs = <<>> THEN 0 ELSE 1)

C27_SegmentsOfParse ==
    (result.op = "parse" /\ result.ok /\ call.format = "intel_hex") =>
        /\ Len(segments) = RunsBetweenExtended(call.input)
        /\ SameImage(segments, MaximalRuns(DataRecordsOf(call.input)))

\* Two data records at consecutive absolute addresses with an extended
\* address record between them have been parsed.
C27_AcrossExtended ==
    /\ result.op = "parse"
    /\ result.ok
    /\ call.format = "intel_hex"
    /\ Len(MaximalRuns(DataRecordsOf(call.input))) = 1
    /\ Len(DataRecordsOf(call.input)) = 2
    /\ RunsBetweenExtended(call.input) = 2

\* The included sub-ranges the payload is collected from; none when the
\* calculation ends before it has them.
IncludedRanges(segs, options) ==
    LET working == WorkingImage(normalized_lossy(segs), options.forced_range)
        effective == EffectiveRange(options, min_address(working), max_address(working))
        merged == merge_ranges(Excludes(options))
    IN  IF effective.invalid \/ effective.range = None \/ merged.panicked THEN <<>>
        ELSE subtract_ranges(effective.range[1], merged.ranges)

\* The first to the last address of the image make no Range: the image
\* spans the whole address space and no range is given.
NoEffectiveRange(segs, options) ==
    /\ options.range = None
    /\ options.forced_range = None
    /\ min_address(segs) = Some(0)
    /\ max_address(segs) = Some(MaxAddr)

\* The included sub-ranges are the addresses of the effective range that
\* no exclude range and not target_exclude holds.
IncludedAsStated(segs, options) ==
    \A a \in RunProbes(segs, options) :
        (\E i \in DOMAIN IncludedRanges(segs, options) :
            InRange(a, IncludedRanges(segs, options)[i]))
        <=> Included(segs, options, a)

\* C28: the included sub-ranges of a checksum calculation are exactly the
\* addresses of the effective range in no entry of exclude_ranges and not in
\* target_exclude, and the calculation gets to its payload for every list of
\* exclude ranges.
C28_IncludedRanges ==
    (result.op = "calculate_checksum" /\ ~NoEffectiveRange(segments, call)) =>
        /\ result.err # "panic"
        /\ IncludedAsStated(segments, call)

\* The same for the calculations that return.
C28_IncludedWhenReturned ==
    (result.op = "calculate_checksum" /\ ~NoEffectiveRange(segments, call)
       /\ result.err # "panic") =>
        IncludedAsStated(segments, call)

\* A calculation whose exclude ranges overlap and come unsorted has
\* returned bytes.
C28_Overlapping ==
    /\ result.op = "calculate_checksum"
    /\ result.ok
    /\ call.exclude_ranges = <<Range(1, MaxAddr - 1), Range(0, 1)>>
    /\ result.value # <<>>

\* other as merge hands it on: after filter_range and offset_addresses.
OtherFiltered(other, options) == MergeOffset(MergeRange(other, options), options)

\* C29: after a Preserve-mode merge, every address the receiving image did
\* not cover reads the byte that other, filtered and moved, reads there.
C29_PreservePriority ==
    (result.op = "merge" /\ call.args.options.mode = "Preserve") =>
        \A a \in MergedAddresses(call.before,
                                 OtherFiltered(call.args.other, call.args.options),
                                 segments) :
            read_byte(call.before, a) = None =>
                read_byte(segments, a) =
                    read_byte(OtherFiltered(call.args.other, call.args.options), a)

\* The byte of the first segment of an image that covers a.
FirstByte(segs, a) ==
    LET cov == {i \in DOMAIN segs : Covers(segs[i], a)}
    IN  IF cov = {} THEN None
        ELSE LET j == CHOOSE i \in cov : \A k \in cov : i <= k
             IN  Some(segs[j].data[a - segs[j].start_address + 1])

\* The same for the addresses one segment of other covers, and with the
\* first of other's segments in the place of the last for the others.
C29_PreserveReversed ==
    (result.op = "merge" /\ call.args.options.mode = "Preserve") =>
        \A a \in MergedAddresses(call.before,
                                 OtherFiltered(call.args.other, call.args.options),
                                 segments) :
            read_byte(call.before, a) = None =>
                read_byte(segments, a) =
                    FirstByte(OtherFiltered(call.args.other, call.args.options), a)

\* A Preserve-mode merge of two overlapping segments into an image that
\* covers none of their addresses.
C29_Overlapping ==
    /\ result.op = "merge"
    /\ call.args.options.mode = "Preserve"
    /\ \E a \in 0..3 :
          /\ read_byte(call.before, a) = None
          /\ Cardinality(BytesAt(OtherFiltered(call.args.other, call.args.options), a)) = 2

\* The targets of checksum that place the bytes in the image.
PlacingTargets == {"Address", "Append", "Prepend", "OverwriteEnd"}

\* Every address outside lo..hi reads in after as in before.
SameOutside(before, after, lo, hi) ==
    \A a \in Probes(before) \cup Probes(after) :
        (a < lo \/ a > hi) => read_byte(after, a) = read_byte(before, a)

\* C30: when checksum returns Ok with target Address, Append, Prepend or
\* OverwriteEnd, read_bytes_contiguous(write_addr, len) on the image it
\* leaves returns the returned bytes, and every address outside the
\* placement window reads as before the call.
C30_StoredAtWindow ==
    [][(/\ result'.op = "checksum"
        /\ result'.ok
        /\ call'.lib_target.kind \in PlacingTargets
        /\ WriteAddr(segments, call'.lib_target, Len(result'.value)) # None)
       => LET len == Len(result'.value)
              write_addr == WriteAddr(segments, call'.lib_target, len)[1]
          IN  /\ read_bytes_contiguous(segments', write_addr, len)
                    = Some(result'.value)
              /\ SameOutside(segments, segments', write_addr,
                             write_addr + len - 1)]_vars

\* The same read byte by byte: every address of the placement window that
\* lies in the address space reads its byte of the checksum.
C30_StoredByteWise ==
    [][(/\ result'.op = "checksum"
        /\ result'.ok
        /\ call'.lib_target.kind \in PlacingTargets
        /\ WriteAddr(segments, call'.lib_target, Len(result'.value)) # None)
       => LET len == Len(result'.value)
              write_addr == WriteAddr(segments, call'.lib_target, len)[1]
          IN  /\ \A k \in 1..len :
                    write_addr + k - 1 <= MaxAddr =>
                        read_byte(segments', write_addr + k - 1)
                            = Some(result'.value[k])
              /\ SameOutside(segments, segments', write_addr,
                             write_addr + len - 1)]_vars

\* A checksum has been written at a window that ends at the last address.
C30_WindowAtLastAddress ==
    /\ result.op = "checksum"
    /\ result.ok
    /\ call.lib_target.kind = "Address"
    /\ call.lib_target.addr + Len(result.value) - 1 = MaxAddr
    /\ read_byte(segments, MaxAddr) = Some(result.value[Len(result.value)])

====
